---------------------------- MODULE Spec2Model ----------------------------
(***************************************************************************)
(* Model of the Shadow DEX position tracker (src/liquidity_positions.py,   *)
(* src/app.py, src/init_db.py).                                            *)
(*                                                                         *)
(* Numbers.  The program computes with decimal.Decimal at 50 significant   *)
(* digits.  The model keeps a Decimal as an integer count of 1/Q           *)
(* (Q = 10^4, the four decimals of the tick base 1.0001), truncated toward *)
(* zero.  Ticks are the even ticks, so that tick/2 is a whole power of the *)
(* base.                                                                   *)
(***************************************************************************)
EXTENDS Integers, Sequences, FiniteSets, TLC

(***************************************************************************)
(* Bounds of the model.                                                    *)
(***************************************************************************)
MaxHalfTick == 2      \* ticks range over 2 * (-MaxHalfTick .. MaxHalfTick)
MaxSqrtOff == 3       \* pool sqrt prices range over Q - MaxSqrtOff .. Q + MaxSqrtOff (and 0)

(***************************************************************************)
(* Decimal arithmetic at scale Q.                                          *)
(***************************************************************************)
Q == 10000
TickBase == 10001     \* Decimal(1.0001) at scale Q
NoPrice == -1         \* Python None where a price is expected

Abs(x) == IF x < 0 THEN -x ELSE x
\* Quotient truncated toward zero (Decimal -> int(), and the model's rounding).
TruncDiv(a, b) ==
    IF (a >= 0) = (b > 0) THEN Abs(a) \div Abs(b) ELSE -(Abs(a) \div Abs(b))
\* a * b at scale Q, truncated; the product is formed in two parts to stay within
\* TLC's 32-bit integers: a * b / Q = (x div Q) * y + (x mod Q) * y / Q.
DMul(a, b) ==
    LET x == IF Abs(a) >= Abs(b) THEN Abs(a) ELSE Abs(b)
        y == IF Abs(a) >= Abs(b) THEN Abs(b) ELSE Abs(a)
        m == (x \div Q) * y + ((x % Q) * y) \div Q
    IN  IF (a >= 0) = (b >= 0) THEN m ELSE -m
\* a / b at scale Q, truncated, formed in two parts likewise.
DDiv(a, b) ==
    LET x == Abs(a)
        y == Abs(b)
        m == (x \div y) * Q + ((x % y) * Q) \div y
    IN  IF (a >= 0) = (b > 0) THEN m ELSE -m
DInt(a) == TruncDiv(a, Q)

RECURSIVE PowBase(_)
PowBase(k) == IF k = 0 THEN Q ELSE DMul(PowBase(k - 1), TickBase)
\* Decimal(1.0001) ** e for a whole exponent e of either sign.
PowTick(e) == IF e >= 0 THEN PowBase(e) ELSE DDiv(Q, PowBase(-e))

Ticks == { 2 * h : h \in -MaxHalfTick .. MaxHalfTick }
\* Decimal(1.0001) ** (Decimal(tick) / 2)
SqrtPriceAtTick(tick) == PowTick(tick \div 2)

(***************************************************************************)
(* calculate_token_amounts                                                 *)
(***************************************************************************)
\* liquidity * ((hi - lo) / (lo * hi)), truncated by int().  The quotient is kept
\* exact (50 digits in the source); only int() truncates.
Amount0Between(liquidity, lo, hi) == TruncDiv(liquidity * (hi - lo) * Q, lo * hi)
\* liquidity * (hi - lo), truncated by int()
Amount1Between(liquidity, lo, hi) == DInt(liquidity * (hi - lo))

\* The same with the two legs exchanged below the range.
calculate_token_amounts_swapped(liquidity, current_sqrt_price, lower_tick, upper_tick) ==
    LET sqrt_price_lower == SqrtPriceAtTick(lower_tick)
        sqrt_price_upper == SqrtPriceAtTick(upper_tick)
    IN  IF current_sqrt_price <= sqrt_price_lower
        THEN [amount0 |-> 0,
              amount1 |-> Amount1Between(liquidity, sqrt_price_lower, sqrt_price_upper)]
        ELSE IF current_sqrt_price >= sqrt_price_upper
        THEN [amount0 |-> 0,
              amount1 |-> Amount1Between(liquidity, sqrt_price_lower, sqrt_price_upper)]
        ELSE [amount0 |-> Amount0Between(liquidity, current_sqrt_price, sqrt_price_upper),
              amount1 |-> Amount1Between(liquidity, sqrt_price_lower, current_sqrt_price)]

calculate_token_amounts(liquidity, current_sqrt_price, lower_tick, upper_tick) ==
    LET sqrt_price_lower == SqrtPriceAtTick(lower_tick)
        sqrt_price_upper == SqrtPriceAtTick(upper_tick)
    IN  IF current_sqrt_price <= sqrt_price_lower
        THEN [amount0 |-> Amount0Between(liquidity, sqrt_price_lower, sqrt_price_upper),
              amount1 |-> 0]
        ELSE IF current_sqrt_price >= sqrt_price_upper
        THEN [amount0 |-> 0,
              amount1 |-> Amount1Between(liquidity, sqrt_price_lower, sqrt_price_upper)]
        ELSE [amount0 |-> Amount0Between(liquidity, current_sqrt_price, sqrt_price_upper),
              amount1 |-> Amount1Between(liquidity, sqrt_price_lower, current_sqrt_price)]

\* The branch of calculate_token_amounts that a call takes (lines 414, 417, 420).
AmountCase(current_sqrt_price, lower_tick, upper_tick) ==
    IF current_sqrt_price <= SqrtPriceAtTick(lower_tick) THEN "below"
    ELSE IF current_sqrt_price >= SqrtPriceAtTick(upper_tick) THEN "above"
    ELSE "in range"

Liquidities == {0, 1, 5000, 20000, 20001}
SqrtPrices == {0} \cup (Q - MaxSqrtOff .. Q + MaxSqrtOff)

(***************************************************************************)
(* Token metadata.  KNOWN_TOKENS gives WBTC 8, USDC 6, SHADOW and xSHADOW  *)
(* 18 decimals; the model reduces the exponents (1, 0, 1, 1) so that       *)
(* 10^decimals and the prices stay inside TLC's integers.  Every         *)
(* formula takes the decimals as the source does.                          *)
(***************************************************************************)
Symbols == {"WBTC", "USDC", "USDC.e", "SHADOW", "xSHADOW"}
KNOWN_TOKENS ==
    [s \in Symbols |-> [symbol |-> s,
                        decimals |-> IF s \in {"USDC", "USDC.e"} THEN 0 ELSE 1]]
StableSymbols == {"USDC", "USDC.e"}

RECURSIVE Pow10(_)
Pow10(n) == IF n = 0 THEN 1 ELSE 10 * Pow10(n - 1)
\* Decimal(10) ** n at scale Q, n of either sign
DPow10(n) == IF n >= 0 THEN Q * Pow10(n) ELSE DDiv(Q, Q * Pow10(-n))

(***************************************************************************)
(* Price oracle: get_v3_pool_price, get_v2_pool_price, get_pool_price.     *)
(* A chain read is a record; ok = FALSE is a contract call that raises.    *)
(* sqrt is Decimal(sqrtPriceX96) / 2^96 at scale Q.                        *)
(***************************************************************************)
calculate_price_from_sqrt_price_x96(sqrt, token0_decimals, token1_decimals) ==
    LET price_ratio == DMul(sqrt, sqrt)
        decimal_adjustment == DDiv(DPow10(token0_decimals), DPow10(token1_decimals))
    IN  DMul(price_ratio, decimal_adjustment)

Raised == -2          \* an exception leaving the expression being evaluated

\* The same without the inversion for a stablecoin token0.
UsdPriceOfLegs_noinv(price, sym0, sym1) ==
    IF sym1 \in StableSymbols THEN price
    ELSE IF sym0 \in StableSymbols THEN price
         ELSE NoPrice

\* The shared tail of both venues: which leg is the stablecoin.
\* Decimal(1) / price raises decimal.DivisionByZero on price = 0.
UsdPriceOfLegs(price, sym0, sym1) ==
    IF sym1 \in StableSymbols THEN price
    ELSE IF sym0 \in StableSymbols
         THEN (IF price = 0 THEN Raised ELSE DDiv(Q, price))
         ELSE NoPrice

\* try: ... except Exception: return None
ExceptNone(v) == IF v = Raised THEN NoPrice ELSE v

V3RawPrice(rd) ==
    calculate_price_from_sqrt_price_x96(rd.sqrt,
        KNOWN_TOKENS[rd.sym0].decimals, KNOWN_TOKENS[rd.sym1].decimals)

get_v3_pool_price(rd) ==
    IF ~rd.ok THEN NoPrice
    ELSE ExceptNone(UsdPriceOfLegs(V3RawPrice(rd), rd.sym0, rd.sym1))

\* Decimal(reserve) / Decimal(10 ** decimals)
ReserveAdjusted(reserve, decimals) == DDiv(reserve * Q, DPow10(decimals))
V2RawPrice(rd) ==
    DDiv(ReserveAdjusted(rd.reserve1, KNOWN_TOKENS[rd.sym1].decimals),
         ReserveAdjusted(rd.reserve0, KNOWN_TOKENS[rd.sym0].decimals))

get_v2_pool_price(rd) ==
    IF ~rd.ok THEN NoPrice
    ELSE IF ReserveAdjusted(rd.reserve0, KNOWN_TOKENS[rd.sym0].decimals) > 0
         THEN ExceptNone(UsdPriceOfLegs(V2RawPrice(rd), rd.sym0, rd.sym1))
         ELSE NoPrice

PRICE_CACHE_DURATION == 60
DatetimeMin == -100000     \* datetime.min, far before any clock value of the model
Pools == {"WBTC_USDC_POOL", "SHADOW_USDC_POOL"}
EmptyCache == [p \in Pools |-> NoPrice]

\* The same never fresh: every call clears.
CacheFresh_never(current_time, ts) == FALSE

\* The same with the boundary on the other side: still fresh at exactly the TTL.
CacheFresh_inclusive(current_time, ts) == current_time - ts <= PRICE_CACHE_DURATION

CacheFresh(current_time, ts) == current_time - ts < PRICE_CACHE_DURATION

\* The order of the two venue lookups on a miss, and what each stores.
\* first, second: <<name, price>> of the venue tried first and second.
LookupInOrder(cache, ts, current_time, pool_address, fresh, first, second) ==
    LET cache1 == IF fresh THEN cache ELSE EmptyCache
    IN  IF first[2] # NoPrice
        THEN [cache |-> [cache1 EXCEPT ![pool_address] = first[2]],
              ts |-> current_time, ret |-> first[2],
              lookups |-> <<first[1]>>, cleared |-> ~fresh]
        ELSE IF second[2] # NoPrice
        THEN [cache |-> [cache1 EXCEPT ![pool_address] = second[2]],
              ts |-> current_time, ret |-> second[2],
              lookups |-> <<first[1], second[1]>>, cleared |-> ~fresh]
        ELSE [cache |-> cache1, ts |-> ts, ret |-> NoPrice,
              lookups |-> <<first[1], second[1]>>, cleared |-> ~fresh]

\* The same trying the constant-product venue first.
MissLookup_v2first(cache, ts, current_time, pool_address, fresh, v3_price, v2_price) ==
    LookupInOrder(cache, ts, current_time, pool_address, fresh,
                  <<"v2", v2_price>>, <<"v3", v3_price>>)

\* The same refreshing the shared timestamp whatever the lookups gave.
MissLookup_stampAlways(cache, ts, current_time, pool_address, fresh, v3_price, v2_price) ==
    [LookupInOrder(cache, ts, current_time, pool_address, fresh,
                   <<"v3", v3_price>>, <<"v2", v2_price>>) EXCEPT !.ts = current_time]

\* The try block of get_pool_price: V3 first, V2 only when V3 gave None.
MissLookup(cache, ts, current_time, pool_address, fresh, v3_price, v2_price) ==
    LookupInOrder(cache, ts, current_time, pool_address, fresh,
                  <<"v3", v3_price>>, <<"v2", v2_price>>)

\* get_pool_price(pool_address) at clock value current_time, the chain answering
\* v3rd to the slot0 read and v2rd to the getReserves read.  Returns the new
\* globals, the returned price, and the lookups performed, in order.
get_pool_price(cache, ts, current_time, pool_address, v3rd, v2rd) ==
    LET fresh == CacheFresh(current_time, ts)
    IN  IF fresh /\ cache[pool_address] # NoPrice
        THEN [cache |-> cache, ts |-> ts, ret |-> cache[pool_address],
              lookups |-> <<>>, cleared |-> FALSE]
        ELSE MissLookup(cache, ts, current_time, pool_address, fresh,
                        get_v3_pool_price(v3rd), get_v2_pool_price(v2rd))

(***************************************************************************)
(* tick_to_price, and the wallet scan of find_and_display_positions.       *)
(***************************************************************************)
\* Decimal(1.0001) ** Decimal(tick) * Decimal(10) ** (decimals0 - decimals1)
tick_to_price(tick, decimals0, decimals1) ==
    DMul(PowTick(tick), DPow10(decimals0 - decimals1))

ReadError == -1       \* a wallet slot whose tokenOfOwnerByIndex / positions read raises
CLOSED_STREAK == 5    \* if consecutive_closed >= 5: break

\* A wallet is a sequence of slots, wallet[i + 1] being index i: ReadError, or the
\* liquidity positions(token_id) reports.  The token held at index i is i + 1.
TokenAt(i) == i + 1

\* The loop "for i in range(balance - 1, -1, -1)" from index i on.
RECURSIVE ScanFrom(_, _, _, _, _)
ScanFrom(wallet, i, consecutive_closed, active_positions, reads) ==
    IF i < 0
    THEN [active |-> active_positions, reads |-> reads]
    ELSE LET slot == wallet[i + 1]
         IN  IF slot = ReadError
             THEN ScanFrom(wallet, i - 1, consecutive_closed, active_positions,
                           Append(reads, i))
             ELSE IF slot > 0
             THEN ScanFrom(wallet, i - 1, 0,
                           Append(active_positions,
                                  [token_id |-> TokenAt(i), liquidity |-> slot]),
                           Append(reads, i))
             ELSE IF consecutive_closed + 1 >= CLOSED_STREAK
             THEN [active |-> active_positions, reads |-> Append(reads, i)]
             ELSE ScanFrom(wallet, i - 1, consecutive_closed + 1, active_positions,
                           Append(reads, i))

Reverse(seq) == [k \in 1 .. Len(seq) |-> seq[Len(seq) + 1 - k]]

\* The scan without line 622, active_positions.reverse().
ScanWallet_unreversed(wallet) ==
    LET r == ScanFrom(wallet, Len(wallet) - 1, 0, <<>>, <<>>)
    IN  [active |-> r.active, reads |-> r.reads]

\* Lines 604-622: the scan and active_positions.reverse().
ScanWallet(wallet) ==
    LET r == ScanFrom(wallet, Len(wallet) - 1, 0, <<>>, <<>>)
    IN  [active |-> Reverse(r.active), reads |-> r.reads]

MaxBalance == 9       \* the scanned wallets hold up to MaxBalance positions
ActiveLiquidities == {20000}
ScanWallets ==
    UNION { [1 .. n -> {ReadError, 0} \cup ActiveLiquidities] : n \in 1 .. MaxBalance }
NoScan == [active |-> <<>>, reads |-> <<>>]

(***************************************************************************)
VARIABLES
    ca_in, ca_out, ca_pc,      \* a calculate_token_amounts call: arguments, result, position
    fn_in, fn_out, fn_pc,      \* a call of one of the report's calculations, likewise
    th,                        \* two get_pool_price calls in flight: position and locals
    serial,                    \* whether a lock makes the two calls run one after the other
    stamp_of,                  \* history: pool -> the current_time its entry was stored with
    race,                      \* history: what the two calls did to each other
    pv_in, pv_out, pv_pc,      \* a get_v3_pool_price / get_v2_pool_price call
    sc_in, sc_out, sc_pc,      \* a wallet scan: the wallet, the result, position
    now,                       \* the wall clock, in seconds
    price_cache,               \* _price_cache
    price_cache_timestamp,     \* _price_cache_timestamp
    oc,                        \* the last get_pool_price call: argument, lookups, result
    db,                        \* the table initial_positions
    rp_pc,                     \* the request: "idle", "loop" (positions left), "done"
    active_positions,          \* find_and_display_positions: the scan's result
    rp_idx,                    \* the index of the next entry of active_positions
    initial_data_cache,        \* the baselines loaded from db and captured since
    token_prices,              \* the local price_cache: symbol -> USD price
    perc,                      \* the locals perc_to_lower, perc_to_upper, bound or not
    total_portfolio_value,
    all_positions_data,
    result,                    \* what the call returned, or that it raised
    rp_log,                    \* history: what happened to each position of this request
    captures                   \* history: per token, the first captured baseline and a count

calcVars == <<ca_in, ca_out, ca_pc>>
fnVars == <<fn_in, fn_out, fn_pc>>
raceVars == <<th, serial, stamp_of, race>>
venueVars == <<pv_in, pv_out, pv_pc>>
scanVars == <<sc_in, sc_out, sc_pc>>
oracleVars == <<now, price_cache, price_cache_timestamp, oc>>
reportVars == <<db, rp_pc, active_positions, rp_idx, initial_data_cache, token_prices,
                perc, total_portfolio_value, all_positions_data, result, rp_log, captures>>
vars == <<calcVars, fnVars, raceVars, venueVars, scanVars, oracleVars, reportVars>>

(***************************************************************************)
(* The chain reads the oracle is run against.                              *)
(***************************************************************************)
FailedRead == [ok |-> FALSE, sqrt |-> 0, reserve0 |-> 0, reserve1 |-> 0,
               sym0 |-> "USDC", sym1 |-> "USDC"]
V3Read(sqrt, sym0, sym1) ==
    [ok |-> TRUE, sqrt |-> sqrt, reserve0 |-> 0, reserve1 |-> 0,
     sym0 |-> sym0, sym1 |-> sym1]
V2Read(reserve0, reserve1, sym0, sym1) ==
    [ok |-> TRUE, sqrt |-> 0, reserve0 |-> reserve0, reserve1 |-> reserve1,
     sym0 |-> sym0, sym1 |-> sym1]

PoolSymbols == {"WBTC", "USDC", "USDC.e", "SHADOW"}
MaxReserve == 2       \* reserves range over 0 .. MaxReserve (times 4 raw units)
V3Reads ==
    {FailedRead} \cup
    { V3Read(s, s0, s1) : s \in {0, Q, Q + MaxSqrtOff},
                          s0 \in PoolSymbols, s1 \in PoolSymbols }
V2Reads ==
    {FailedRead} \cup
    { V2Read(4 * r0, 4 * r1, s0, s1) : r0 \in 0 .. MaxReserve, r1 \in 0 .. MaxReserve,
                                       s0 \in PoolSymbols, s1 \in PoolSymbols }

CalcInputs ==
    [liquidity : Liquidities, sqrt_price : SqrtPrices,
     lower_tick : Ticks, upper_tick : Ticks]
CalcIdle == [liquidity |-> 0, sqrt_price |-> 0, lower_tick |-> 0, upper_tick |-> 0]
NoAmounts == [amount0 |-> 0, amount1 |-> 0]
FnIdle == [fn |-> "none"]
IdleThread == [pc |-> "idle", pool |-> "WBTC_USDC_POOL", current_time |-> 0,
               price |-> NoPrice]
Threads == {1, 2}
NoThreads == [i \in Threads |-> IdleThread]
NotStored == -1
NoStamps == [p \in Pools |-> NotStored]
NoRace == [early_clear |-> FALSE, stamp_back |-> FALSE]
VenueInputs == [venue : {"v3"}, rd : V3Reads] \cup [venue : {"v2"}, rd : V2Reads]
VenueIdle == [venue |-> "v3", rd |-> FailedRead]
NoCall == [pool |-> "WBTC_USDC_POOL", ret |-> NoPrice, lookups |-> <<>>,
           cleared |-> FALSE, v3 |-> NoPrice, v2 |-> NoPrice, dropped |-> {}]

\* One call of calculate_token_amounts on the drawn input.
CalcAmounts ==
    /\ ca_pc = "in"
    /\ ca_out' = calculate_token_amounts(ca_in.liquidity, ca_in.sqrt_price,
                                         ca_in.lower_tick, ca_in.upper_tick)
    /\ ca_pc' = "out"
    /\ UNCHANGED <<ca_in, fnVars, raceVars, venueVars, scanVars, oracleVars, reportVars>>

\* One call of get_v3_pool_price or get_v2_pool_price on the drawn read.
VenuePrice ==
    /\ pv_pc = "in"
    /\ pv_out' = IF pv_in.venue = "v3" THEN get_v3_pool_price(pv_in.rd)
                                       ELSE get_v2_pool_price(pv_in.rd)
    /\ pv_pc' = "out"
    /\ UNCHANGED <<pv_in, calcVars, fnVars, raceVars, scanVars, oracleVars, reportVars>>

\* The scan of one wallet (lines 604-622).
Scan ==
    /\ sc_pc = "in"
    /\ sc_out' = ScanWallet(sc_in)
    /\ sc_pc' = "out"
    /\ UNCHANGED <<sc_in, calcVars, fnVars, raceVars, venueVars, oracleVars, reportVars>>

(***************************************************************************)
(* get_pool_price run call after call, time passing in between.            *)
(***************************************************************************)
MaxTime == 140
TickSteps == {20, 60}
\* What the two venues answer when the oracle is exercised.
OracleV3Reads == {FailedRead, V3Read(Q, "WBTC", "USDC"),
                  V3Read(Q + MaxSqrtOff, "WBTC", "USDC"), V3Read(Q, "WBTC", "SHADOW")}
OracleV2Reads == {FailedRead, V2Read(4, 8, "USDC", "SHADOW"), V2Read(0, 8, "USDC", "SHADOW")}

\* Time passes between calls.
Tick ==
    /\ \E d \in TickSteps :
          /\ now + d <= MaxTime
          /\ now' = now + d
    /\ UNCHANGED <<price_cache, price_cache_timestamp, oc, calcVars, fnVars, raceVars, venueVars, scanVars, reportVars>>

\* The record kept of a get_pool_price call r made on the cache before.
CallRecord(pool, r, v3rd, v2rd, before) ==
    [pool |-> pool, ret |-> r.ret, lookups |-> r.lookups, cleared |-> r.cleared,
     v3 |-> get_v3_pool_price(v3rd), v2 |-> get_v2_pool_price(v2rd),
     dropped |-> {p \in Pools : before[p] # NoPrice /\ r.cache[p] = NoPrice}]

\* One whole get_pool_price call.
OracleCall ==
    /\ \E pool \in Pools, v3rd \in OracleV3Reads, v2rd \in OracleV2Reads :
          LET r == get_pool_price(price_cache, price_cache_timestamp, now, pool, v3rd, v2rd)
          IN  /\ price_cache' = r.cache
              /\ price_cache_timestamp' = r.ts
              /\ oc' = CallRecord(pool, r, v3rd, v2rd, price_cache)
    /\ UNCHANGED <<now, calcVars, fnVars, raceVars, venueVars, scanVars, reportVars>>

NextOracle == Tick \/ OracleCall

(***************************************************************************)
(* Two threads calling get_pool_price, as two requests served at the same  *)
(* time do.  A call is a sequence of steps on the globals _price_cache and *)
(* _price_cache_timestamp, and the other thread may run between any two of *)
(* them: "check" is the test of line 347, "clear" the assignment of line   *)
(* 351, "lookup" the reads of the two venues, "store" and "stamp" the two  *)
(* assignments of lines 358-359 (366-367).  With serial, a lock around the *)
(* call lets a thread begin only when the other is not inside a call.      *)
(* stamp_of[p] is the current_time of the call that stored the entry of p, *)
(* and race tells whether a clear removed an entry less than               *)
(* PRICE_CACHE_DURATION after it was stored (by these current_times), and  *)
(* whether the timestamp was overwritten with an earlier time.             *)
(***************************************************************************)
MaxRaceTime == 90
RaceStep == 30
RaceV3Reads == {FailedRead, V3Read(Q, "WBTC", "USDC")}
RaceV2Reads == {FailedRead, V2Read(4, 8, "USDC", "SHADOW")}

\* Line 344: the call begins.
RaceBegin(i) ==
    /\ th[i].pc = "idle"
    /\ serial => \A j \in Threads : th[j].pc = "idle"
    /\ \E pool \in Pools :
          th' = [th EXCEPT ![i] = [pc |-> "check", pool |-> pool, current_time |-> now,
                                   price |-> NoPrice]]
    /\ UNCHANGED <<calcVars, fnVars, venueVars, scanVars, reportVars,
                   serial, stamp_of, race, oracleVars>>

\* Lines 347-350: the test, and the return of a cached price.
RaceCheck(i) ==
    /\ th[i].pc = "check"
    /\ th' = [th EXCEPT ![i].pc =
                 IF CacheFresh(th[i].current_time, price_cache_timestamp)
                 THEN IF price_cache[th[i].pool] # NoPrice THEN "idle" ELSE "lookup"
                 ELSE "clear",
                        ![i].price =
                 IF CacheFresh(th[i].current_time, price_cache_timestamp)
                 THEN price_cache[th[i].pool] ELSE NoPrice]
    /\ UNCHANGED <<calcVars, fnVars, venueVars, scanVars, reportVars,
                   serial, stamp_of, race, oracleVars>>

\* Line 351.
RaceClear(i) ==
    /\ th[i].pc = "clear"
    /\ price_cache' = EmptyCache
    /\ stamp_of' = NoStamps
    /\ race' = [race EXCEPT !.early_clear =
                   @ \/ \E p \in Pools :
                           /\ stamp_of[p] # NotStored
                           /\ th[i].current_time - stamp_of[p] < PRICE_CACHE_DURATION]
    /\ th' = [th EXCEPT ![i].pc = "lookup"]
    /\ UNCHANGED <<calcVars, fnVars, venueVars, scanVars, reportVars,
                   serial, now, price_cache_timestamp, oc>>

\* Lines 356-357, 364-365, 371-372: the price of the first venue that has one.
RaceLookup(i) ==
    /\ th[i].pc = "lookup"
    /\ \E v3rd \in RaceV3Reads, v2rd \in RaceV2Reads :
          LET price == IF get_v3_pool_price(v3rd) # NoPrice THEN get_v3_pool_price(v3rd)
                       ELSE get_v2_pool_price(v2rd)
          IN  th' = [th EXCEPT ![i].pc = IF price # NoPrice THEN "store" ELSE "idle",
                               ![i].price = price]
    /\ UNCHANGED <<calcVars, fnVars, venueVars, scanVars, reportVars,
                   serial, stamp_of, race, oracleVars>>

\* Lines 358 and 366.
RaceStore(i) ==
    /\ th[i].pc = "store"
    /\ price_cache' = [price_cache EXCEPT ![th[i].pool] = th[i].price]
    /\ stamp_of' = [stamp_of EXCEPT ![th[i].pool] = th[i].current_time]
    /\ th' = [th EXCEPT ![i].pc = "stamp"]
    /\ UNCHANGED <<calcVars, fnVars, venueVars, scanVars, reportVars,
                   serial, race, now, price_cache_timestamp, oc>>

\* Lines 359-361 and 367-369.
RaceStamp(i) ==
    /\ th[i].pc = "stamp"
    /\ price_cache_timestamp' = th[i].current_time
    /\ race' = [race EXCEPT !.stamp_back =
                   @ \/ th[i].current_time < price_cache_timestamp]
    /\ th' = [th EXCEPT ![i].pc = "idle"]
    /\ UNCHANGED <<calcVars, fnVars, venueVars, scanVars, reportVars,
                   serial, stamp_of, now, price_cache, oc>>

\* Time passes, also while a call is under way.
RaceTick ==
    /\ now + RaceStep <= MaxRaceTime
    /\ now' = now + RaceStep
    /\ UNCHANGED <<calcVars, fnVars, venueVars, scanVars, reportVars,
                   raceVars, price_cache, price_cache_timestamp, oc>>

NextRace ==
    \/ \E i \in Threads : RaceBegin(i)
    \/ \E i \in Threads : RaceCheck(i)
    \/ \E i \in Threads : RaceClear(i)
    \/ \E i \in Threads : RaceLookup(i)
    \/ \E i \in Threads : RaceStore(i)
    \/ \E i \in Threads : RaceStamp(i)
    \/ RaceTick

(***************************************************************************)
(* The report: find_and_display_positions behind GET /api/data.  Amounts   *)
(* in USD, prices, days and percentages are Decimals at scale Q; what a    *)
(* report shows with two decimals (f"{x:,.2f}") is a whole number of       *)
(* hundredths.                                                             *)
(***************************************************************************)
MaxHeld == 2          \* the wallets a report is asked for hold up to MaxHeld positions
MaxDays == 1          \* the reports are asked for on days 0 .. MaxDays
DAY == 86400
TokenIds == 1 .. MaxHeld
BlockNA == -1         \* 'block': 'N/A'

\* What positions(token_id) returns besides the liquidity: odd tokens are WBTC/USDC
\* positions, even ones USDC/SHADOW positions, all over the ticks -2 .. 2.
PositionData(token_id) ==
    IF token_id % 2 = 1
    THEN [token0 |-> "WBTC", token1 |-> "USDC", tickLower |-> -2, tickUpper |-> 2]
    ELSE [token0 |-> "USDC", token1 |-> "SHADOW", tickLower |-> -2, tickUpper |-> 2]

\* get_pool_info: None when slot0() raises, else sqrt_price and current_tick.
NoPool == [ok |-> FALSE, sqrt_price |-> 0, current_tick |-> 0]
PoolStateAt(tick) == [ok |-> TRUE, sqrt_price |-> SqrtPriceAtTick(tick), current_tick |-> tick]
\* The pool as a report finds it: unreadable, at the middle of the range, below it.
CurrentPoolReads == {NoPool, PoolStateAt(0), PoolStateAt(-4)}
\* The pool at the mint block (history does not change): unreadable or as it was.
HistPoolReads == {NoPool, PoolStateAt(0)}

\* get_position_creation_info: None when the log scan raises ("failed") or finds no
\* mint event ("notfound"), else the mint block and its timestamp.  Token t was
\* minted in block t at time 0.
NotRead == [read |-> "none", block_number |-> 0, timestamp |-> 0]
CreationReads(token_id) ==
    { [read |-> "failed", block_number |-> 0, timestamp |-> 0],
      [read |-> "notfound", block_number |-> 0, timestamp |-> 0],
      [read |-> "found", block_number |-> token_id, timestamp |-> 0] }

\* get_emissions_rewards: {} when a gauge read raises, else the positive amounts earned.
FailedRewards == [ok |-> FALSE, earned |-> <<>>]
RewardReads ==
    {FailedRewards,
     [ok |-> TRUE, earned |-> <<[symbol |-> "xSHADOW", amount |-> 10],
                                [symbol |-> "WBTC", amount |-> 1]>>]}
get_emissions_rewards(rd) ==
    IF rd.ok THEN SelectSeq(rd.earned, LAMBDA e : e.amount > 0) ELSE <<>>

\* A baseline: initial_data_cache[token_id].  current is the " (Current)" suffix of
\* the date, date the time the date string names.
NoSnapshot ==
    [present |-> FALSE, date |-> 0, current |-> FALSE, block |-> 0,
     amount0 |-> 0, amount1 |-> 0, price |-> 0]
Snapshot(date, current, block, amount0, amount1, price) ==
    [present |-> TRUE, date |-> date, current |-> current, block |-> block,
     amount0 |-> amount0, amount1 |-> amount1, price |-> price]
EmptyTable == [t \in TokenIds |-> NoSnapshot]

\* block_number INTEGER NOT NULL: the insert of the text 'N/A' is rejected.
DbAccepts(data) == data.block # BlockNA

\* The upsert; a database error is caught and printed, the table left as it was.
db_save_initial_position(table, token_id, data) ==
    IF DbAccepts(data) THEN [table EXCEPT ![token_id] = data] ELSE table

\* SELECT * FROM initial_positions, the rows keyed by token_id.
db_load_initial_positions(table) ==
    [t \in TokenIds |->
        IF table[t].present
        THEN Snapshot(table[t].date, table[t].current, table[t].block,
                      table[t].amount0, table[t].amount1, table[t].price)
        ELSE NoSnapshot]

\* Lines 651-675: the baseline of a position that has none, or nothing.  x holds the
\* locals of the iteration (see ProcessPosition).
CaptureBaseline(x) ==
    IF x.creation.read = "found"
    THEN IF x.hist.ok
         THEN Snapshot(x.creation.timestamp, FALSE, x.creation.block_number,
                       calculate_token_amounts(x.item.liquidity, x.hist.sqrt_price,
                                               x.pos.tickLower, x.pos.tickUpper).amount0,
                       calculate_token_amounts(x.item.liquidity, x.hist.sqrt_price,
                                               x.pos.tickLower, x.pos.tickUpper).amount1,
                       tick_to_price(x.hist.current_tick,
                                     KNOWN_TOKENS[x.pos.token0].decimals,
                                     KNOWN_TOKENS[x.pos.token1].decimals))
         ELSE NoSnapshot
    ELSE Snapshot(x.current_time, TRUE, BlockNA, x.amounts.amount0, x.amounts.amount1,
                  x.current_price)

\* "if price:" -- None and Decimal 0 are both false.
Truthy(price) == price # NoPrice /\ price # 0
\* Decimal(amount) / Decimal(10 ** decimals)
AmountAdjusted(amount, decimals) == TruncDiv(amount * Q, Pow10(decimals))

\* Lines 679-695.
PositionUsdValue(amount0, amount1, token0_info, token1_info, price0, price1) ==
    LET adj0 == AmountAdjusted(amount0, token0_info.decimals)
        adj1 == AmountAdjusted(amount1, token1_info.decimals)
        legs == (IF Truthy(price0) THEN DMul(adj0, price0) ELSE 0)
                + (IF Truthy(price1) THEN DMul(adj1, price1) ELSE 0)
    IN  IF legs # 0 THEN legs
        ELSE IF token1_info.symbol = "USDC" /\ Truthy(price0)
        THEN DMul(adj0, price0) + adj1
        ELSE IF token0_info.symbol = "USDC" /\ Truthy(price1)
        THEN DMul(adj1, price1) + adj0
        ELSE 0

\* Lines 737-743 without the halving of xSHADOW.
RewardUsd_full(e, prices) ==
    IF Truthy(prices[e.symbol])
    THEN DMul(AmountAdjusted(e.amount, KNOWN_TOKENS[e.symbol].decimals), prices[e.symbol])
    ELSE 0

\* Lines 735-743: what one reward entry adds to total_rewards_usd.
RewardUsd(e, prices) ==
    LET reward_price == prices[e.symbol]
        usd_value == IF Truthy(reward_price)
                     THEN DMul(AmountAdjusted(e.amount, KNOWN_TOKENS[e.symbol].decimals),
                               reward_price)
                     ELSE 0
    IN  IF e.symbol = "xSHADOW" THEN TruncDiv(usd_value, 2) ELSE usd_value

\* Lines 745-749: the entry of rewards_data, its usd_value before the formatting.
RewardEntry(e, prices) ==
    [symbol |-> e.symbol,
     usd_value |->
        IF e.symbol = "xSHADOW"
        THEN TruncDiv(IF Truthy(prices[e.symbol])
                      THEN DMul(AmountAdjusted(e.amount, KNOWN_TOKENS[e.symbol].decimals),
                                prices[e.symbol])
                      ELSE 0, 2)
        ELSE IF Truthy(prices[e.symbol])
        THEN DMul(AmountAdjusted(e.amount, KNOWN_TOKENS[e.symbol].decimals),
                  prices[e.symbol])
        ELSE 0]
RewardsData(emissions, prices) ==
    [k \in DOMAIN emissions |-> RewardEntry(emissions[k], prices)]

RECURSIVE TotalRewardsUsd(_, _)
TotalRewardsUsd(emissions, prices) ==
    IF emissions = <<>> THEN 0
    ELSE RewardUsd(Head(emissions), prices) + TotalRewardsUsd(Tail(emissions), prices)

\* f"{x:,.2f}": x in hundredths, rounded half to even.
Fmt2(x) ==
    LET a == Abs(x)
        q == a \div 100
        r == a % 100
        c == IF r > 50 \/ (r = 50 /\ q % 2 = 1) THEN q + 1 ELSE q
    IN  IF x < 0 THEN -c ELSE c

\* Decimal(time_difference.total_seconds()) / Decimal(86400), Q / 86400 being 25 / 216.
DaysActive(current_time, date) == TruncDiv((current_time - date) * 25, 216)

\* Line 764.
AnnualizedApr(total_rewards_usd, position_usd_value, days_active) ==
    DDiv(DDiv(total_rewards_usd, position_usd_value) * 365, days_active) * 100

\* Lines 752-761: days_active stays Decimal(0) for a " (Current)" date; elapsed is
\* datetime.now() - creation_datetime, in days.
DaysActiveOf_anydate(current, elapsed) == elapsed
DaysActiveOf(current, elapsed) == IF current THEN 0 ELSE elapsed

\* Lines 751-766: the APR and the projected earnings; the three stay Decimal(0)
\* unless line 763 lets them be computed.
ProjectedApr(total_rewards_usd, position_usd_value, days_active) ==
    IF position_usd_value > 0 /\ days_active > 0
    THEN AnnualizedApr(total_rewards_usd, position_usd_value, days_active)
    ELSE 0
ProjectedAnnual(position_usd_value, annualized_apr) ==
    DMul(position_usd_value, TruncDiv(annualized_apr, 100))
ProjectedDaily(annual_projected_usd_earnings) ==
    TruncDiv(annual_projected_usd_earnings, 365)

\* The largest r with r * r <= n.
RECURSIVE ISqrtIn(_, _, _)
ISqrtIn(n, lo, hi) ==
    IF lo >= hi THEN lo
    ELSE LET mid == (lo + hi + 1) \div 2
         IN  IF mid * mid <= n THEN ISqrtIn(n, mid, hi) ELSE ISqrtIn(n, lo, mid - 1)
\* Decimal.sqrt() at scale Q
DSqrt(a) == ISqrtIn(a * Q, 0, 46340)

\* The token amounts of a unit of liquidity at price p (lines 492-511).
UnitAmounts(p, p_lower, p_upper) ==
    LET sqrt_p == DSqrt(p)
        sqrt_lower == DSqrt(p_lower)
        sqrt_upper == DSqrt(p_upper)
    IN  IF p <= p_lower
        THEN [amount0 |-> DDiv(sqrt_upper - sqrt_lower, DMul(sqrt_lower, sqrt_upper)),
              amount1 |-> 0]
        ELSE IF p >= p_upper
        THEN [amount0 |-> 0, amount1 |-> sqrt_upper - sqrt_lower]
        ELSE [amount0 |-> DDiv(sqrt_upper - sqrt_p, DMul(sqrt_p, sqrt_upper)),
              amount1 |-> sqrt_p - sqrt_lower]

\* Lines 514 and 516.
HodlValue(entry_price, target_price, lower_price, upper_price) ==
    DMul(UnitAmounts(entry_price, lower_price, upper_price).amount0, target_price)
    + UnitAmounts(entry_price, lower_price, upper_price).amount1
LpValue(target_price, lower_price, upper_price) ==
    DMul(UnitAmounts(target_price, lower_price, upper_price).amount0, target_price)
    + UnitAmounts(target_price, lower_price, upper_price).amount1

calculate_il_percentage_signed(entry_price, target_price, lower_price, upper_price) ==
    IF target_price = entry_price \/ lower_price >= upper_price THEN 0
    ELSE IF HodlValue(entry_price, target_price, lower_price, upper_price) = 0 THEN 0
    ELSE DDiv(LpValue(target_price, lower_price, upper_price),
              HodlValue(entry_price, target_price, lower_price, upper_price)) - Q

calculate_il_percentage(entry_price, target_price, lower_price, upper_price) ==
    IF target_price = entry_price \/ lower_price >= upper_price THEN 0
    ELSE IF HodlValue(entry_price, target_price, lower_price, upper_price) = 0 THEN 0
    ELSE Abs(DDiv(LpValue(target_price, lower_price, upper_price),
                  HodlValue(entry_price, target_price, lower_price, upper_price)) - Q)

(***************************************************************************)
(* format_timedelta.  Its argument is None, a number that is not a         *)
(* Decimal, a Decimal that is not finite, or a finite Decimal of days      *)
(* (scale Q); its result is one of the texts "N/A", "Met", "<1m", or the   *)
(* parts that " ".join puts together, each a value and its unit.           *)
(***************************************************************************)
NoDays == [kind |-> "None", days |-> 0]
DecimalDays(days) == [kind |-> "Decimal", days |-> days]
Text(t) == [text |-> t, parts |-> <<>>]
Parts(display_parts) == [text |-> "parts", parts |-> display_parts]

MINUTES_PER_DAY == 1440
\* int(days * 24 * 60) of a Decimal days >= 0: the whole days and the fraction apart,
\* the product staying inside TLC's integers.
TotalMinutes(days) ==
    (days \div Q) * MINUTES_PER_DAY + ((days % Q) * MINUTES_PER_DAY) \div Q

\* Lines 541-562: the components, in order, and those that are not zero.
TimeComponents(total_minutes) ==
    LET years == total_minutes \div (365 * MINUTES_PER_DAY)
        after_years == total_minutes % (365 * MINUTES_PER_DAY)
        months == after_years \div (30 * MINUTES_PER_DAY)
        after_months == after_years % (30 * MINUTES_PER_DAY)
        weeks == after_months \div (7 * MINUTES_PER_DAY)
        after_weeks == after_months % (7 * MINUTES_PER_DAY)
        days_part == after_weeks \div MINUTES_PER_DAY
        after_days == after_weeks % MINUTES_PER_DAY
        hours_part == after_days \div 60
        minutes_part == after_days % 60
    IN  <<[value |-> years, unit |-> "y"], [value |-> months, unit |-> "mo"],
          [value |-> weeks, unit |-> "w"], [value |-> days_part, unit |-> "d"],
          [value |-> hours_part, unit |-> "h"], [value |-> minutes_part, unit |-> "m"]>>
IsShown(c) == c.value > 0
TimeComponentsOrdered(total_minutes) == SelectSeq(TimeComponents(total_minutes), IsShown)

\* Lines 564-568: the first three.
DisplayParts_all(time_components_ordered) == time_components_ordered
DisplayParts(time_components_ordered) ==
    IF Len(time_components_ordered) > 3
    THEN SubSeq(time_components_ordered, 1, 3)
    ELSE time_components_ordered

\* Lines 533-570, the Decimal being finite and not negative.
FormatMinutes(total_minutes) ==
    IF total_minutes = 0 THEN Text("<1m")
    ELSE IF DisplayParts(TimeComponentsOrdered(total_minutes)) = <<>> THEN Text("N/A")
    ELSE Parts(DisplayParts(TimeComponentsOrdered(total_minutes)))

\* The sign tested after the truncation to minutes.
format_timedelta_truncfirst(days) ==
    IF days.kind # "Decimal" THEN Text("N/A")
    ELSE IF TruncDiv(days.days * 18, 125) = 0 THEN Text("<1m")
    ELSE IF days.days < 0 THEN Text("Met")
    ELSE FormatMinutes(TotalMinutes(days.days))

format_timedelta(days) ==
    IF days.kind # "Decimal" THEN Text("N/A")
    ELSE IF days.days < 0 THEN Text("Met")
    ELSE FormatMinutes(TotalMinutes(days.days))

\* Lines 791-794.
DailyRewardsUsd(position_usd_value, annualized_apr) ==
    IF annualized_apr > 0
    THEN TruncDiv(DMul(position_usd_value, TruncDiv(annualized_apr, 100)), 365)
    ELSE 0

\* Lines 789-797, for one bound of the range.
DaysToBreakeven_unguarded(il_usd, daily_rewards_usd) ==
    IF daily_rewards_usd > 0 THEN DDiv(il_usd, daily_rewards_usd) ELSE il_usd
DaysToBreakeven(il_usd, daily_rewards_usd) ==
    IF daily_rewards_usd > 0 /\ il_usd > 0 THEN DDiv(il_usd, daily_rewards_usd) ELSE 0

\* Lines 810-822, for one bound: "N/A", or the total time and then either
\* "(<remaining> left)" or "(Met)".
BreakevenNA == [kind |-> "N/A", total |-> Text("N/A"), remaining |-> Text("N/A")]
BreakevenStr(days_to_breakeven, days_active) ==
    IF days_to_breakeven > 0
    THEN [kind |-> IF format_timedelta(DecimalDays(days_to_breakeven - days_active))
                      # Text("Met")
                   THEN "left" ELSE "Met",
          total |-> format_timedelta(DecimalDays(days_to_breakeven)),
          remaining |-> format_timedelta(DecimalDays(days_to_breakeven - days_active))]
    ELSE BreakevenNA

\* Lines 788-822 for one bound.
Breakeven(il_usd, daily_rewards_usd, days_active) ==
    [days_to_breakeven |-> DaysToBreakeven(il_usd, daily_rewards_usd),
     time_remaining |-> DaysToBreakeven(il_usd, daily_rewards_usd) - days_active,
     breakeven_str |-> BreakevenStr(DaysToBreakeven(il_usd, daily_rewards_usd),
                                    days_active)]

\* Line 772, the condition under which the IL block runs.
IlPrerequisites_nodays(present, initial_price_val, position_usd_value, days_active) ==
    present /\ initial_price_val > 0 /\ position_usd_value > 0
IlPrerequisites(present, initial_price_val, position_usd_value, days_active) ==
    present /\ initial_price_val > 0 /\ position_usd_value > 0 /\ days_active > 0

\* impermanent_loss_data, {} being present = FALSE; a PositionReport; the two locals.
NoIl == [present |-> FALSE, il_usd_current |-> 0, net_gain_loss |-> 0]
NoReport ==
    [token_id |-> 0, status |-> "", estimated_value_usd |-> 0,
     perc_to_lower |-> 0, perc_to_upper |-> 0, initial_state |-> NoSnapshot,
     total_rewards_usd |-> 0, annualized_apr |-> 0,
     daily_projected_usd_earnings |-> 0, annual_projected_usd_earnings |-> 0,
     impermanent_loss_data |-> NoIl]
Unbound == [bound |-> FALSE, lower |-> 0, upper |-> 0]
NoPrices == [s \in Symbols |-> NoPrice]

(***************************************************************************)
(* One iteration of the loop of lines 632-903, written as a chain of       *)
(* operators, each adding to x what its lines assign.  x starts with       *)
(* item, the entry of active_positions; pos, what positions() answers;     *)
(* cache, initial_data_cache; prices, the local price_cache; percs, the    *)
(* locals perc_to_lower and perc_to_upper as the earlier iterations left   *)
(* them; current_time; and what the chain answers: cur, creation, hist,    *)
(* rewards_rd.  The outcome is "skipped" (continue, line 644), "KeyError"  *)
(* (line 677), "NameError" (line 887) or "reported".                       *)
(***************************************************************************)
\* What is remembered of the iteration: the reads that failed, whether a baseline was
\* captured, the baseline used, how line 772 decided, the current price, the amounts
\* and the USD value of the position.
LogEntry(x, outcome, failed, baseline, gate, current_price, amounts, value) ==
    [token_id |-> x.item.token_id, outcome |-> outcome, failed |-> failed,
     amounts |-> amounts, value |-> value,
     captured |-> baseline.present /\ ~x.cache[x.item.token_id].present,
     baseline |-> baseline, gate |-> gate, current_price |-> current_price]

\* The reads of lines 653-655 that failed.
FailedBaselineReads(x) ==
    IF x.cache[x.item.token_id].present THEN {}
    ELSE IF x.creation.read = "failed" THEN {"mint"}
    ELSE IF x.creation.read = "found" /\ ~x.hist.ok THEN {"hist"}
    ELSE {}
FailedRewardReads(x) == IF x.rewards_rd.ok THEN {} ELSE {"rewards"}

\* Lines 805-808 and 862-866.
IlData(il_perc_current, hodl_val_at_current, total_rewards_usd) ==
    [present |-> TRUE,
     il_usd_current |-> Fmt2(DMul(il_perc_current, hodl_val_at_current)),
     net_gain_loss |-> Fmt2(total_rewards_usd - DMul(il_perc_current, hodl_val_at_current))]

\* Lines 833-843.
PercsOf(current_price, price_lower, price_upper) ==
    [bound |-> TRUE,
     lower |-> IF current_price > 0
               THEN DDiv(current_price - price_lower, current_price) * 100 ELSE 0,
     upper |-> IF current_price > 0
               THEN DDiv(price_upper - current_price, current_price) * 100 ELSE 0]

\* Line 699.
position_status(tickLower, current_tick, tickUpper) ==
    IF tickLower <= current_tick /\ current_tick <= tickUpper
    THEN "IN RANGE" ELSE "OUT OF RANGE"

\* Lines 874-903: the PositionReport is appended, perc_to_lower being bound.
AppendReport(x) ==
    [outcome |-> IF x.percs_after.bound THEN "reported" ELSE "NameError",
     cache |-> [x.cache EXCEPT ![x.item.token_id] = x.initial_info],
     saved |-> x.initial_info,
     percs |-> x.percs_after,
     value |-> x.position_usd_value,
     report |->
        IF x.percs_after.bound
        THEN [token_id |-> x.item.token_id,
              status |-> position_status(x.pos.tickLower, x.cur.current_tick,
                                         x.pos.tickUpper),
              estimated_value_usd |-> Fmt2(x.position_usd_value),
              perc_to_lower |-> Fmt2(x.percs_after.lower),
              perc_to_upper |-> Fmt2(x.percs_after.upper),
              initial_state |-> x.initial_info,
              total_rewards_usd |-> Fmt2(x.total_rewards_usd),
              annualized_apr |-> Fmt2(x.annualized_apr),
              daily_projected_usd_earnings |-> Fmt2(ProjectedDaily(x.annual)),
              annual_projected_usd_earnings |-> Fmt2(x.annual),
              impermanent_loss_data |-> x.il_data]
        ELSE NoReport,
     entry |-> LogEntry(x, IF x.percs_after.bound THEN "reported" ELSE "NameError",
                        FailedBaselineReads(x) \cup FailedRewardReads(x), x.initial_info,
                        IF x.il_runs THEN "met" ELSE "unmet", x.current_price,
                        x.amounts, x.position_usd_value)]

\* Lines 771-872: the IL block, run or not, and the projected earnings.
ImpermanentLoss(x) ==
    AppendReport(x @@
        [annual |-> ProjectedAnnual(x.position_usd_value, x.annualized_apr),
         il_data |->
            IF x.il_runs
            THEN IlData(calculate_il_percentage(x.initial_info.price, x.current_price,
                                                x.price_lower, x.price_upper),
                        DMul(AmountAdjusted(x.initial_info.amount0,
                                            KNOWN_TOKENS[x.pos.token0].decimals),
                             x.current_price)
                        + AmountAdjusted(x.initial_info.amount1,
                                         KNOWN_TOKENS[x.pos.token1].decimals),
                        x.total_rewards_usd)
            ELSE NoIl,
         percs_after |->
            IF x.il_runs THEN PercsOf(x.current_price, x.price_lower, x.price_upper)
            ELSE x.percs])

\* Lines 751-772: the APR, and whether the IL block runs.
Earnings(x) ==
    ImpermanentLoss(x @@
        [annualized_apr |->
            ProjectedApr(x.total_rewards_usd, x.position_usd_value, x.days_active),
         il_runs |-> IlPrerequisites(x.initial_info.present, x.initial_info.price,
                                     x.position_usd_value, x.days_active),
         price_lower |-> tick_to_price(x.pos.tickLower, KNOWN_TOKENS[x.pos.token0].decimals,
                                       KNOWN_TOKENS[x.pos.token1].decimals),
         price_upper |-> tick_to_price(x.pos.tickUpper, KNOWN_TOKENS[x.pos.token0].decimals,
                                       KNOWN_TOKENS[x.pos.token1].decimals)])

\* Lines 677-761: the save of a baseline that is not there raises KeyError; else the
\* value, the rewards and the age of the position.
SaveAndValue(x) ==
    IF ~x.initial_info.present
    THEN [outcome |-> "KeyError", cache |-> x.cache, saved |-> NoSnapshot,
          percs |-> x.percs, value |-> 0, report |-> NoReport,
          entry |-> LogEntry(x, "KeyError", FailedBaselineReads(x), NoSnapshot,
                             "notreached", x.current_price, x.amounts, 0)]
    ELSE Earnings(x @@
            [position_usd_value |->
                PositionUsdValue(x.amounts.amount0, x.amounts.amount1,
                                 KNOWN_TOKENS[x.pos.token0], KNOWN_TOKENS[x.pos.token1],
                                 x.prices[x.pos.token0], x.prices[x.pos.token1]),
             total_rewards_usd |->
                TotalRewardsUsd(get_emissions_rewards(x.rewards_rd), x.prices),
             days_active |-> DaysActiveOf(x.initial_info.current,
                                          DaysActive(x.current_time, x.initial_info.date))])

\* Lines 651-675: the baseline, cached or captured.
Baseline(x) ==
    SaveAndValue(x @@
        [initial_info |->
            IF x.cache[x.item.token_id].present
            THEN x.cache[x.item.token_id]
            ELSE CaptureBaseline(x)])

\* Lines 632-649: the pool read, the amounts, the current price.
ProcessPosition(x) ==
    IF ~x.cur.ok
    THEN [outcome |-> "skipped", cache |-> x.cache, saved |-> NoSnapshot,
          percs |-> x.percs, value |-> 0, report |-> NoReport,
          entry |-> LogEntry(x, "skipped", {"pool"}, NoSnapshot, "notreached", 0,
                             NoAmounts, 0)]
    ELSE Baseline(x @@
            [amounts |-> calculate_token_amounts(x.item.liquidity, x.cur.sqrt_price,
                                                 x.pos.tickLower, x.pos.tickUpper),
             current_price |-> tick_to_price(x.cur.current_tick,
                                             KNOWN_TOKENS[x.pos.token0].decimals,
                                             KNOWN_TOKENS[x.pos.token1].decimals)])

\* What the call returns: kind is "none" while nothing has been returned, "raised"
\* when an exception left the call (the endpoint answers 500), else the kind of
\* dictionary returned; the totals are those of a "report".
ResultOf(kind, value, num, daily, annual, yield) ==
    [kind |-> kind, total_portfolio_value |-> value, num_active_positions |-> num,
     total_daily_projected_usd_earnings |-> daily,
     total_annual_projected_usd_earnings |-> annual, total_annual_yield |-> yield]
NoResult == ResultOf("none", 0, 0, 0, 0, 0)

RECURSIVE SumSeq(_)
SumSeq(seq) == IF seq = <<>> THEN 0 ELSE Head(seq) + SumSeq(Tail(seq))

\* Lines 908-925.  The totals of the earnings add up what the reports show, in
\* hundredths; the yield divides them by the unrounded portfolio value.
Totals(total_daily, total_annual, num, total_value) ==
    ResultOf("report", Fmt2(total_value), num, total_daily, total_annual,
             IF total_value > 0 THEN Fmt2(DDiv(total_annual * 100, total_value) * 100)
             ELSE 0)
FinalResult(positions, active, total_value) ==
    Totals(SumSeq([k \in 1 .. Len(positions) |-> positions[k].daily_projected_usd_earnings]),
           SumSeq([k \in 1 .. Len(positions) |-> positions[k].annual_projected_usd_earnings]),
           Len(active), total_value)

NoCaptures == [t \in TokenIds |-> [n |-> 0, first |-> NoSnapshot]]

\* The wallets a report is asked for; ActiveLiquidities are their open positions.
ReportWallets == UNION { [1 .. n -> {0} \cup ActiveLiquidities] : n \in 0 .. MaxHeld }

\* What the two price pools answer to the prefetch of lines 582-593.
WbtcPoolReads == {[v3 |-> FailedRead, v2 |-> FailedRead],
                  [v3 |-> V3Read(Q, "WBTC", "USDC"), v2 |-> FailedRead]}
ShadowPoolReads == {[v3 |-> FailedRead, v2 |-> FailedRead],
                    [v3 |-> FailedRead, v2 |-> V2Read(4, 8, "USDC", "SHADOW")]}

\* "if price:" keeps a price that is neither None nor 0.
Kept(ret) == IF Truthy(ret) THEN ret ELSE NoPrice

\* Lines 582-593: USDC is 1.0, WBTC, SHADOW and xSHADOW are asked of get_pool_price
\* in the order of KNOWN_TOKENS; c1, c2 and c3 are the three calls.
PrefetchXShadow(c1, c2, c3, before, xshadow) ==
    [cache |-> c3.cache, ts |-> c3.ts,
     last |-> CallRecord("SHADOW_USDC_POOL", c3, xshadow.v3, xshadow.v2, before),
     prices |-> [s \in Symbols |->
                    CASE s = "USDC" -> Q
                      [] s = "WBTC" -> Kept(c1.ret)
                      [] s = "SHADOW" -> Kept(c2.ret)
                      [] s = "xSHADOW" -> Kept(c3.ret)
                      [] OTHER -> NoPrice]]
PrefetchShadow(c1, c2, current_time, xshadow) ==
    PrefetchXShadow(c1, c2,
                    get_pool_price(c2.cache, c2.ts, current_time, "SHADOW_USDC_POOL",
                                   xshadow.v3, xshadow.v2),
                    c2.cache, xshadow)
PrefetchWbtc(c1, current_time, shadow, xshadow) ==
    PrefetchShadow(c1,
                   get_pool_price(c1.cache, c1.ts, current_time, "SHADOW_USDC_POOL",
                                  shadow.v3, shadow.v2),
                   current_time, xshadow)
Prefetch(cache, ts, current_time, wbtc, shadow, xshadow) ==
    PrefetchWbtc(get_pool_price(cache, ts, current_time, "WBTC_USDC_POOL", wbtc.v3, wbtc.v2),
                 current_time, shadow, xshadow)

\* What the chain answers to balanceOf and to the scan: the balance cannot be read,
\* or the wallet is read.
NoBalance == <<ReadError>>

\* GET /api/data up to the loop over the positions: the connection check, the load
\* of the baselines, the prefetch of the prices, the balance and the scan (lines
\* 576-629), for a wallet of the set wallets.  Every earlier request has been
\* answered.
\* Lines 598-599, 601-602, 624-625: a return ends the call; else the loop is next.
AfterStart_loop(kind) == "loop"
AfterStart(kind) == IF kind = "none" THEN "loop" ELSE "done"

StartReportOf(wallets) ==
    /\ rp_pc # "loop"
    /\ \/ /\ UNCHANGED <<price_cache, price_cache_timestamp, oc>>
          /\ initial_data_cache' = EmptyTable
          /\ token_prices' = NoPrices
          /\ active_positions' = <<>>
          /\ rp_pc' = "done"
          /\ result' = ResultOf("connect_error", 0, 0, 0, 0, 0)
       \/ \E wbtc \in WbtcPoolReads, shadow \in ShadowPoolReads, xshadow \in ShadowPoolReads,
             wallet \in wallets \cup {NoBalance} :
             LET pf == Prefetch(price_cache, price_cache_timestamp, now,
                                wbtc, shadow, xshadow)
                 scan == IF wallet = NoBalance THEN NoScan ELSE ScanWallet(wallet)
                 kind == IF wallet = NoBalance THEN "balance_error"
                         ELSE IF Len(wallet) = 0 THEN "no_positions"
                         ELSE IF scan.active = <<>> THEN "no_active"
                         ELSE "none"
             IN  /\ price_cache' = pf.cache
                 /\ price_cache_timestamp' = pf.ts
                 /\ oc' = pf.last
                 /\ initial_data_cache' = db_load_initial_positions(db)
                 /\ token_prices' = pf.prices
                 /\ active_positions' = scan.active
                 /\ rp_pc' = AfterStart(kind)
                 /\ result' = ResultOf(kind, 0, 0, 0, 0, 0)
    /\ rp_idx' = 1
    /\ perc' = Unbound
    /\ total_portfolio_value' = 0
    /\ all_positions_data' = <<>>
    /\ rp_log' = <<>>
    /\ UNCHANGED <<now, db, captures, calcVars, fnVars, raceVars, venueVars, scanVars>>

StartReport == StartReportOf(ReportWallets)

\* One iteration of the loop over active_positions, db_save_initial_position
\* included; an exception ends the call.  With tracked, the history captures is kept.
ReportPositionOf(tracked) ==
    /\ rp_pc = "loop"
    /\ rp_idx <= Len(active_positions)
    /\ LET item == active_positions[rp_idx]
           t == item.token_id
       IN  \E cur \in CurrentPoolReads :
           \E creation \in (IF cur.ok /\ ~initial_data_cache[t].present
                             THEN CreationReads(t) ELSE {NotRead}) :
           \E hist \in (IF creation.read = "found" THEN HistPoolReads ELSE {NoPool}) :
           \E rewards_rd \in (IF cur.ok /\ (creation.read = "found" => hist.ok)
                               THEN RewardReads ELSE {FailedRewards}) :
              LET r == ProcessPosition([item |-> item, cache |-> initial_data_cache,
                                        prices |-> token_prices, percs |-> perc,
                                        current_time |-> now, cur |-> cur,
                                        creation |-> creation, hist |-> hist,
                                        rewards_rd |-> rewards_rd,
                                        pos |-> PositionData(t)])
              IN  /\ initial_data_cache' = r.cache
                  /\ db' = IF r.saved.present
                           THEN db_save_initial_position(db, t, r.saved)
                           ELSE db
                  /\ perc' = r.percs
                  /\ total_portfolio_value' = total_portfolio_value + r.value
                  /\ all_positions_data' = IF r.outcome = "reported"
                                           THEN Append(all_positions_data, r.report)
                                           ELSE all_positions_data
                  /\ rp_log' = Append(rp_log, r.entry)
                  /\ captures' =
                        IF tracked /\ r.entry.captured
                        THEN [captures EXCEPT
                                 ![t] = [n |-> IF @.n < 2 THEN @.n + 1 ELSE 2,
                                         first |-> IF @.n = 0 THEN r.saved ELSE @.first]]
                        ELSE captures
                  /\ IF r.outcome \in {"KeyError", "NameError"}
                     THEN /\ rp_pc' = "done"
                          /\ result' = ResultOf("raised", 0, 0, 0, 0, 0)
                          /\ rp_idx' = rp_idx
                     ELSE /\ rp_pc' = "loop"
                          /\ result' = result
                          /\ rp_idx' = rp_idx + 1
    /\ UNCHANGED <<now, price_cache, price_cache_timestamp, oc, active_positions,
                   token_prices, calcVars, fnVars, raceVars, venueVars, scanVars>>

ReportPosition == ReportPositionOf(FALSE)

\* The same two steps for a wallet of at most one position, the captures remembered.
BaselineWallets == {w \in ReportWallets : Len(w) <= 1}
StartBaselineReport == StartReportOf(BaselineWallets)
ReportBaselinePosition == ReportPositionOf(TRUE)

\* The totals and the return (lines 908-925).
FinishReport ==
    /\ rp_pc = "loop"
    /\ rp_idx > Len(active_positions)
    /\ rp_pc' = "done"
    /\ result' = FinalResult(all_positions_data, active_positions, total_portfolio_value)
    /\ UNCHANGED <<now, price_cache, price_cache_timestamp, oc, db, active_positions,
                   rp_idx, initial_data_cache, token_prices, perc, total_portfolio_value,
                   all_positions_data, rp_log, captures, calcVars, fnVars, raceVars, venueVars, scanVars>>

\* A day passes between two requests.
DayPasses ==
    /\ rp_pc # "loop"
    /\ now + DAY <= MaxDays * DAY
    /\ now' = now + DAY
    /\ UNCHANGED <<price_cache, price_cache_timestamp, oc, calcVars, fnVars, raceVars, venueVars, scanVars,
                   reportVars>>

NextReport == StartReport \/ ReportPosition \/ FinishReport \/ DayPasses
NextBaseline == StartBaselineReport \/ ReportBaselinePosition \/ FinishReport \/ DayPasses

(***************************************************************************)
(* The calculations of the report, each called on its own on a drawn       *)
(* input: fn_in holds the arguments, fn_out the result.                    *)
(***************************************************************************)
\* Prices for calculate_il_percentage: the squares of the halves up to MaxRoot, so that
\* Decimal.sqrt() is exact; the bounds of a range are prices of ticks, hence positive.
MaxRoot == 3
IlPrices == {DMul(r * (Q \div 2), r * (Q \div 2)) : r \in 0 .. 2 * MaxRoot}
IlInputs ==
    [fn : {"il"}, entry_price : IlPrices, target_price : IlPrices,
     lower_price : IlPrices \ {0}, upper_price : IlPrices \ {0}]

\* Rewards for lines 728-749: up to MaxRewards earned tokens, no token twice (emissions
\* is a dictionary), each priced or not.
MaxRewards == 2
RewardSymbols == {"xSHADOW", "SHADOW", "WBTC"}
RewardAmounts == {1, 3}
RewardPrices == {NoPrice, 2 * Q + 1}
Emissions ==
    {e \in UNION {[1 .. n -> [symbol : RewardSymbols, amount : RewardAmounts]] :
                     n \in 0 .. MaxRewards} :
        \A i, j \in DOMAIN e : i # j => e[i].symbol # e[j].symbol}
RewardInputs ==
    [fn : {"rewards"}, emissions : Emissions,
     prices : {pr \in [Symbols -> RewardPrices \cup {Q}] :
                  /\ pr["USDC"] = Q /\ pr["USDC.e"] = NoPrice
                  /\ \A y \in RewardSymbols : pr[y] \in RewardPrices}]

\* The loop of lines 728-749 over the rewards of one position.
CalcRewards ==
    /\ fn_pc = "in" /\ fn_in.fn = "rewards"
    /\ fn_out' = [fn |-> "rewards",
                  rewards_data |-> RewardsData(fn_in.emissions, fn_in.prices),
                  total_rewards_usd |-> TotalRewardsUsd(fn_in.emissions, fn_in.prices)]
    /\ fn_pc' = "out"
    /\ UNCHANGED <<fn_in, calcVars, raceVars, venueVars, scanVars, oracleVars, reportVars>>

\* Inputs for lines 751-769: whether the date is a " (Current)" one, the USD value,
\* the rewards and the days since the date; the quotients of these are exact.
AprValues == {0, 500 * Q, 1000 * Q}
AprRewards == {0, 10 * Q, 20 * Q}
AprElapsed == {0, 5 * Q, 10 * Q, 20 * Q}
AprInputs ==
    [fn : {"apr"}, current : BOOLEAN, position_usd_value : AprValues,
     total_rewards_usd : AprRewards, elapsed : AprElapsed]

\* Lines 751-769 for one position.
CalcApr ==
    /\ fn_pc = "in" /\ fn_in.fn = "apr"
    /\ LET days_active == DaysActiveOf(fn_in.current, fn_in.elapsed)
           annualized_apr == ProjectedApr(fn_in.total_rewards_usd,
                                          fn_in.position_usd_value, days_active)
           annual == ProjectedAnnual(fn_in.position_usd_value, annualized_apr)
       IN  fn_out' = [fn |-> "apr", annualized_apr |-> annualized_apr,
                      annual_projected_usd_earnings |-> annual,
                      daily_projected_usd_earnings |-> ProjectedDaily(annual)]
    /\ fn_pc' = "out"
    /\ UNCHANGED <<fn_in, calcVars, raceVars, venueVars, scanVars, oracleVars, reportVars>>

\* Arguments of format_timedelta: the three that are not finite Decimals, negative
\* Decimals down to under a minute, and whole days up to MaxFormatDays and around a
\* month and a year, each with a fraction of a day (none, 10 s, 1 min, 1 h, 6 h).
MaxFormatDays == 8
FormatDays == (0 .. MaxFormatDays) \cup {30, 37, 365, 395, 400, 402}
FormatFractions == {0, 1, 7, 417, 2500}
FormatInputs ==
    [fn : {"format"},
     days : {NoDays, [kind |-> "float", days |-> 0], [kind |-> "NaN", days |-> 0]}
            \cup {DecimalDays(-d) : d \in {1, 7, Q}}
            \cup {DecimalDays(d * Q + f) : d \in FormatDays, f \in FormatFractions}]

\* One call of format_timedelta.
CalcFormat ==
    /\ fn_pc = "in" /\ fn_in.fn = "format"
    /\ fn_out' = [fn |-> "format", str |-> format_timedelta(fn_in.days)]
    /\ fn_pc' = "out"
    /\ UNCHANGED <<fn_in, calcVars, raceVars, venueVars, scanVars, oracleVars, reportVars>>

\* Inputs of lines 788-822: the APR in percent, the USD value, the IL in USD at the two
\* bounds and the age of the position in days; the quotients of these are exact.
BreakevenAprs == {0, (365 * Q) \div 10, 73 * Q}
BreakevenValues == {0, 1000 * Q}
BreakevenIls == {0, 5 * Q, 10 * Q, 20 * Q}
BreakevenAges == {Q, 5 * Q, 10 * Q, 20 * Q + 1}
BreakevenInputs ==
    [fn : {"breakeven"}, annualized_apr : BreakevenAprs,
     position_usd_value : BreakevenValues, il_usd_lower : BreakevenIls,
     il_usd_upper : BreakevenIls, days_active : BreakevenAges]

\* Lines 788-822 for one position.
CalcBreakeven ==
    /\ fn_pc = "in" /\ fn_in.fn = "breakeven"
    /\ LET daily_rewards_usd == DailyRewardsUsd(fn_in.position_usd_value,
                                                fn_in.annualized_apr)
       IN  fn_out' = [fn |-> "breakeven", daily_rewards_usd |-> daily_rewards_usd,
                      lower |-> Breakeven(fn_in.il_usd_lower, daily_rewards_usd,
                                          fn_in.days_active),
                      upper |-> Breakeven(fn_in.il_usd_upper, daily_rewards_usd,
                                          fn_in.days_active)]
    /\ fn_pc' = "out"
    /\ UNCHANGED <<fn_in, calcVars, raceVars, venueVars, scanVars, oracleVars, reportVars>>

(***************************************************************************)
(* tick_to_price with the digits of the Decimal context.  A Decimal is a   *)
(* sequence of limbs m, least significant first, each in 0 .. Q - 1, and   *)
(* a limb exponent e: its value is the number written by m times Q^e.      *)
(* getcontext().prec = 50 makes every arithmetic result carry 50           *)
(* significant digits; here a result keeps WorkLimbs limbs, a few digits   *)
(* more, and is cut, not rounded, so it is within 10^-59 of the exact      *)
(* result, relatively, where Python is within 10^-49.                      *)
(***************************************************************************)
PREC == 50
WorkLimbs == (PREC \div 4) + 4

LargestOf(S) == CHOOSE k \in S : \A j \in S : j <= k

RECURSIVE SumTerms(_, _, _, _, _)
\* The sum of a[i] * b[k - i + 1] for i in lo .. hi.
SumTerms(a, b, k, lo, hi) ==
    IF lo > hi THEN 0
    ELSE IF lo = hi THEN a[lo] * b[k - lo + 1]
    ELSE SumTerms(a, b, k, lo, (lo + hi) \div 2) + SumTerms(a, b, k, (lo + hi) \div 2 + 1, hi)

\* Limb k of a * b before carries: at most WorkLimbs products of two limbs, which fits
\* TLC's integers.
Coefficient(a, b, k) ==
    SumTerms(a, b, k, IF k > Len(b) THEN k - Len(b) + 1 ELSE 1, IF k < Len(a) THEN k ELSE Len(a))

\* The coefficients of a * b, and two zeros for the carries out of the last.
Coefficients(a, b) ==
    SubSeq([k \in 1 .. Len(a) + Len(b) + 1 |->
              IF k < Len(a) + Len(b) THEN Coefficient(a, b, k) ELSE 0],
           1, Len(a) + Len(b) + 1)

\* A coefficient c < Q^3 gives c % Q to its limb and the two higher digits to the next
\* two limbs: the same number with every entry at most 2 * Q + Q.
SpreadOnce(c) ==
    SubSeq([k \in 1 .. Len(c) |->
              (c[k] % Q) + (IF k > 1 THEN (c[k - 1] \div Q) % Q ELSE 0)
                         + (IF k > 2 THEN c[k - 2] \div (Q * Q) ELSE 0)],
           1, Len(c))

\* The same again: every entry at most Q + 1.
SpreadTwice(s) ==
    SubSeq([k \in 1 .. Len(s) |-> (s[k] % Q) + (IF k > 1 THEN s[k - 1] \div Q ELSE 0)],
           1, Len(s))

\* With entries at most Q + 1 a carry is 0 or 1: an entry of Q or more sends one whatever
\* it receives, an entry of Q - 1 passes on what it receives, a smaller one sends none.
CarryInto(u, k) ==
    IF {j \in 1 .. k - 1 : u[j] # Q - 1} = {} THEN 0
    ELSE IF u[LargestOf({j \in 1 .. k - 1 : u[j] # Q - 1})] >= Q THEN 1 ELSE 0

Carried(u) == SubSeq([k \in 1 .. Len(u) |-> (u[k] + CarryInto(u, k)) % Q], 1, Len(u))

\* Without the zero limbs at the top.
Stripped(m) ==
    IF {k \in 1 .. Len(m) : m[k] # 0} = {} THEN <<>>
    ELSE SubSeq(m, 1, LargestOf({k \in 1 .. Len(m) : m[k] # 0}))

\* The limbs of the number with the coefficients c.
Limbs(c) == Stripped(Carried(SpreadTwice(SpreadOnce(c))))

\* The context's precision: the most significant limbs are kept.
Keep(m, e) ==
    IF Len(m) > WorkLimbs
    THEN [m |-> SubSeq(m, Len(m) - WorkLimbs + 1, Len(m)), e |-> e + Len(m) - WorkLimbs]
    ELSE [m |-> m, e |-> e]

\* Decimal.__mul__
DecMul(x, y) == Keep(Limbs(Coefficients(x.m, y.m)), x.e + y.e)

DecSq(x) == DecMul(x, x)

\* Decimal(n) for 0 < n < Q.
DecInt(n) == [m |-> <<n>>, e |-> 0]
DecOne == DecInt(1)

\* x * 10^j.
DecScale10(x, j) == DecMul(x, [m |-> <<Pow10(j % 4)>>, e |-> j \div 4])

\* The mantissa of a double has MANT_BITS bits after the leading one.
MANT_BITS == 52

\* 2^52 = (2^13)^4 and 5^52 = (5^13)^4, with 5^13 = 5^5 * 5^5 * 5^3.
TwoToMant == DecSq(DecSq(DecInt(8192)))
FiveToMant == DecSq(DecSq(DecMul(DecInt(3125), DecMul(DecInt(3125), DecInt(125)))))

\* The integer nearest to m / Q, ties to even.
RoundDivQ(m) ==
    IF Head(m) * 2 > Q \/ (Head(m) * 2 = Q /\ Tail(m)[1] % 2 = 1)
    THEN Limbs([Tail(m) \o <<0, 0>> EXCEPT ![1] = @ + 1])
    ELSE Tail(m)

\* The literal 1.0001 as Python reads it: the double nearest to 10001 / 10^4, which is
\* FloatMantissa / 2^MANT_BITS since the number lies between 1 and 2.
FloatMantissa == RoundDivQ(Limbs(Coefficients(TwoToMant.m, <<1, 1>>)))

\* Decimal(1.0001): the exact value of that double, m / 2^52 = m * 5^52 / 10^52.
\* The constructor does not round to the context's precision.
DecimalOfFloat ==
    [m |-> Limbs(Coefficients(FloatMantissa, FiveToMant.m)), e |-> -(MANT_BITS \div 4)]

\* Decimal('1.0001'), the number the literal is written for.
DecimalOfText == [m |-> <<1, 1>>, e |-> -1]

MaxTick == 887272
PriceTicks == {-MaxTick, -2, -1, 0, 1, 2, MaxTick}
PriceDecimals == {6, 8, 18}
TickInputs ==
    [fn : {"tick_to_price"}, tick : PriceTicks, decimals0 : PriceDecimals,
     decimals1 : PriceDecimals]

(***************************************************************************)
(* tick_to_price, lines 402-406.  Decimal.__pow__ with an integral         *)
(* exponent is taken by squaring, one bit of the exponent at a step:       *)
(* fn_out holds the bits left (n), the square reached (base) and the       *)
(* product so far (price_ratio).  Beside them it holds the same for the    *)
(* base Decimal('1.0001') (exact_base, exact_ratio), which the code does   *)
(* not compute: the number the result is compared with.  A negative power  *)
(* is kept as the reciprocal (recip) of the positive one.                  *)
(***************************************************************************)
\* Line 404: the operands of **.
TickBegin ==
    /\ fn_pc = "in" /\ fn_in.fn = "tick_to_price"
    /\ fn_out' = [n |-> Abs(fn_in.tick), base |-> DecimalOfFloat, price_ratio |-> DecOne,
                  exact_base |-> DecimalOfText, exact_ratio |-> DecOne]
    /\ fn_pc' = "pow"
    /\ UNCHANGED <<fn_in, calcVars, raceVars, venueVars, scanVars, oracleVars, reportVars>>

\* One bit of the exponent.
PowStepOf(ratio, base, n) == IF n % 2 = 1 THEN DecMul(ratio, base) ELSE ratio

\* Line 404: a step of **.
PowStep ==
    /\ fn_pc = "pow" /\ fn_out.n > 0
    /\ fn_out' = [n |-> fn_out.n \div 2,
                  base |-> DecSq(fn_out.base),
                  price_ratio |-> PowStepOf(fn_out.price_ratio, fn_out.base, fn_out.n),
                  exact_base |-> DecSq(fn_out.exact_base),
                  exact_ratio |-> PowStepOf(fn_out.exact_ratio, fn_out.exact_base, fn_out.n)]
    /\ UNCHANGED <<fn_in, fn_pc, calcVars, raceVars, venueVars, scanVars, oracleVars,
                   reportVars>>

\* price_ratio * Decimal(10) ** (decimals0 - decimals1), of the power or of its reciprocal.
PriceOf(price_ratio, tick, decimals0, decimals1) ==
    DecScale10(price_ratio, IF tick >= 0 THEN decimals0 - decimals1 ELSE decimals1 - decimals0)

\* Lines 405-406.
TickReturn ==
    /\ fn_pc = "pow" /\ fn_out.n = 0
    /\ fn_out' = [price |-> PriceOf(fn_out.price_ratio, fn_in.tick, fn_in.decimals0,
                                    fn_in.decimals1),
                  exact |-> PriceOf(fn_out.exact_ratio, fn_in.tick, fn_in.decimals0,
                                    fn_in.decimals1),
                  recip |-> fn_in.tick < 0]
    /\ fn_pc' = "out"
    /\ UNCHANGED <<fn_in, calcVars, raceVars, venueVars, scanVars, oracleVars, reportVars>>

NextTick == TickBegin \/ PowStep \/ TickReturn

\* A position and the pool state that get_pool_info read for it.
StatusInputs ==
    [fn : {"position_status"}, liquidity : Liquidities, sqrt_price : SqrtPrices,
     current_tick : Ticks, tickLower : Ticks, tickUpper : Ticks]

\* Lines 646-649 and 699 for one position: its amounts, the branch that gave them
\* and its status.
ReportStatus ==
    /\ fn_pc = "in" /\ fn_in.fn = "position_status"
    /\ fn_out' = [fn |-> "position_status",
                  amounts |-> calculate_token_amounts(fn_in.liquidity, fn_in.sqrt_price,
                                                      fn_in.tickLower, fn_in.tickUpper),
                  amount_case |-> AmountCase(fn_in.sqrt_price, fn_in.tickLower,
                                             fn_in.tickUpper),
                  position_status |-> position_status(fn_in.tickLower, fn_in.current_tick,
                                                      fn_in.tickUpper)]
    /\ fn_pc' = "out"
    /\ UNCHANGED <<fn_in, calcVars, raceVars, venueVars, scanVars, oracleVars, reportVars>>

\* One call of calculate_il_percentage.
CalcIl ==
    /\ fn_pc = "in" /\ fn_in.fn = "il"
    /\ fn_out' = [fn |-> "il",
                  il |-> calculate_il_percentage(fn_in.entry_price, fn_in.target_price,
                                                 fn_in.lower_price, fn_in.upper_price)]
    /\ fn_pc' = "out"
    /\ UNCHANGED <<fn_in, calcVars, raceVars, venueVars, scanVars, oracleVars, reportVars>>

InitAmounts ==
    /\ ca_in \in CalcInputs /\ ca_out = NoAmounts /\ ca_pc = "in"
    /\ pv_in = VenueIdle /\ pv_out = NoPrice /\ pv_pc = "in"
    /\ sc_in = <<>> /\ sc_out = NoScan /\ sc_pc = "in"
    /\ now = 0 /\ price_cache = EmptyCache /\ price_cache_timestamp = DatetimeMin
    /\ oc = NoCall
    /\ fn_in = FnIdle /\ fn_out = FnIdle /\ fn_pc = "in"
    /\ th = NoThreads /\ serial = TRUE /\ stamp_of = NoStamps /\ race = NoRace
    /\ db = EmptyTable /\ rp_pc = "idle" /\ active_positions = <<>> /\ rp_idx = 1
    /\ initial_data_cache = EmptyTable /\ token_prices = NoPrices /\ perc = Unbound
    /\ total_portfolio_value = 0 /\ all_positions_data = <<>> /\ result = NoResult
    /\ rp_log = <<>> /\ captures = NoCaptures

InitVenue ==
    /\ ca_in = CalcIdle /\ ca_out = NoAmounts /\ ca_pc = "in"
    /\ pv_in \in VenueInputs /\ pv_out = NoPrice /\ pv_pc = "in"
    /\ sc_in = <<>> /\ sc_out = NoScan /\ sc_pc = "in"
    /\ now = 0 /\ price_cache = EmptyCache /\ price_cache_timestamp = DatetimeMin
    /\ oc = NoCall
    /\ fn_in = FnIdle /\ fn_out = FnIdle /\ fn_pc = "in"
    /\ th = NoThreads /\ serial = TRUE /\ stamp_of = NoStamps /\ race = NoRace
    /\ db = EmptyTable /\ rp_pc = "idle" /\ active_positions = <<>> /\ rp_idx = 1
    /\ initial_data_cache = EmptyTable /\ token_prices = NoPrices /\ perc = Unbound
    /\ total_portfolio_value = 0 /\ all_positions_data = <<>> /\ result = NoResult
    /\ rp_log = <<>> /\ captures = NoCaptures

InitOracle ==
    /\ ca_in = CalcIdle /\ ca_out = NoAmounts /\ ca_pc = "in"
    /\ pv_in = VenueIdle /\ pv_out = NoPrice /\ pv_pc = "in"
    /\ sc_in = <<>> /\ sc_out = NoScan /\ sc_pc = "in"
    /\ now = 0 /\ price_cache = EmptyCache /\ price_cache_timestamp = DatetimeMin
    /\ oc = NoCall
    /\ fn_in = FnIdle /\ fn_out = FnIdle /\ fn_pc = "in"
    /\ th = NoThreads /\ serial = TRUE /\ stamp_of = NoStamps /\ race = NoRace
    /\ db = EmptyTable /\ rp_pc = "idle" /\ active_positions = <<>> /\ rp_idx = 1
    /\ initial_data_cache = EmptyTable /\ token_prices = NoPrices /\ perc = Unbound
    /\ total_portfolio_value = 0 /\ all_positions_data = <<>> /\ result = NoResult
    /\ rp_log = <<>> /\ captures = NoCaptures

InitScan ==
    /\ ca_in = CalcIdle /\ ca_out = NoAmounts /\ ca_pc = "in"
    /\ pv_in = VenueIdle /\ pv_out = NoPrice /\ pv_pc = "in"
    /\ sc_in \in ScanWallets /\ sc_out = NoScan /\ sc_pc = "in"
    /\ now = 0 /\ price_cache = EmptyCache /\ price_cache_timestamp = DatetimeMin
    /\ oc = NoCall
    /\ fn_in = FnIdle /\ fn_out = FnIdle /\ fn_pc = "in"
    /\ th = NoThreads /\ serial = TRUE /\ stamp_of = NoStamps /\ race = NoRace
    /\ db = EmptyTable /\ rp_pc = "idle" /\ active_positions = <<>> /\ rp_idx = 1
    /\ initial_data_cache = EmptyTable /\ token_prices = NoPrices /\ perc = Unbound
    /\ total_portfolio_value = 0 /\ all_positions_data = <<>> /\ result = NoResult
    /\ rp_log = <<>> /\ captures = NoCaptures

InitReport ==
    /\ ca_in = CalcIdle /\ ca_out = NoAmounts /\ ca_pc = "in"
    /\ pv_in = VenueIdle /\ pv_out = NoPrice /\ pv_pc = "in"
    /\ sc_in = <<>> /\ sc_out = NoScan /\ sc_pc = "in"
    /\ now = 0 /\ price_cache = EmptyCache /\ price_cache_timestamp = DatetimeMin
    /\ oc = NoCall
    /\ fn_in = FnIdle /\ fn_out = FnIdle /\ fn_pc = "in"
    /\ th = NoThreads /\ serial = TRUE /\ stamp_of = NoStamps /\ race = NoRace
    /\ db = EmptyTable /\ rp_pc = "idle" /\ active_positions = <<>> /\ rp_idx = 1
    /\ initial_data_cache = EmptyTable /\ token_prices = NoPrices /\ perc = Unbound
    /\ total_portfolio_value = 0 /\ all_positions_data = <<>> /\ result = NoResult
    /\ rp_log = <<>> /\ captures = NoCaptures

InitIl ==
    /\ ca_in = CalcIdle /\ ca_out = NoAmounts /\ ca_pc = "in"
    /\ pv_in = VenueIdle /\ pv_out = NoPrice /\ pv_pc = "in"
    /\ sc_in = <<>> /\ sc_out = NoScan /\ sc_pc = "in"
    /\ now = 0 /\ price_cache = EmptyCache /\ price_cache_timestamp = DatetimeMin
    /\ oc = NoCall
    /\ fn_in \in IlInputs /\ fn_out = FnIdle /\ fn_pc = "in"
    /\ th = NoThreads /\ serial = TRUE /\ stamp_of = NoStamps /\ race = NoRace
    /\ db = EmptyTable /\ rp_pc = "idle" /\ active_positions = <<>> /\ rp_idx = 1
    /\ initial_data_cache = EmptyTable /\ token_prices = NoPrices /\ perc = Unbound
    /\ total_portfolio_value = 0 /\ all_positions_data = <<>> /\ result = NoResult
    /\ rp_log = <<>> /\ captures = NoCaptures

InitRewards ==
    /\ ca_in = CalcIdle /\ ca_out = NoAmounts /\ ca_pc = "in"
    /\ pv_in = VenueIdle /\ pv_out = NoPrice /\ pv_pc = "in"
    /\ sc_in = <<>> /\ sc_out = NoScan /\ sc_pc = "in"
    /\ now = 0 /\ price_cache = EmptyCache /\ price_cache_timestamp = DatetimeMin
    /\ oc = NoCall
    /\ fn_in \in RewardInputs /\ fn_out = FnIdle /\ fn_pc = "in"
    /\ th = NoThreads /\ serial = TRUE /\ stamp_of = NoStamps /\ race = NoRace
    /\ db = EmptyTable /\ rp_pc = "idle" /\ active_positions = <<>> /\ rp_idx = 1
    /\ initial_data_cache = EmptyTable /\ token_prices = NoPrices /\ perc = Unbound
    /\ total_portfolio_value = 0 /\ all_positions_data = <<>> /\ result = NoResult
    /\ rp_log = <<>> /\ captures = NoCaptures

InitApr ==
    /\ ca_in = CalcIdle /\ ca_out = NoAmounts /\ ca_pc = "in"
    /\ pv_in = VenueIdle /\ pv_out = NoPrice /\ pv_pc = "in"
    /\ sc_in = <<>> /\ sc_out = NoScan /\ sc_pc = "in"
    /\ now = 0 /\ price_cache = EmptyCache /\ price_cache_timestamp = DatetimeMin
    /\ oc = NoCall
    /\ fn_in \in AprInputs /\ fn_out = FnIdle /\ fn_pc = "in"
    /\ th = NoThreads /\ serial = TRUE /\ stamp_of = NoStamps /\ race = NoRace
    /\ db = EmptyTable /\ rp_pc = "idle" /\ active_positions = <<>> /\ rp_idx = 1
    /\ initial_data_cache = EmptyTable /\ token_prices = NoPrices /\ perc = Unbound
    /\ total_portfolio_value = 0 /\ all_positions_data = <<>> /\ result = NoResult
    /\ rp_log = <<>> /\ captures = NoCaptures

InitFormat ==
    /\ ca_in = CalcIdle /\ ca_out = NoAmounts /\ ca_pc = "in"
    /\ pv_in = VenueIdle /\ pv_out = NoPrice /\ pv_pc = "in"
    /\ sc_in = <<>> /\ sc_out = NoScan /\ sc_pc = "in"
    /\ now = 0 /\ price_cache = EmptyCache /\ price_cache_timestamp = DatetimeMin
    /\ oc = NoCall
    /\ fn_in \in FormatInputs /\ fn_out = FnIdle /\ fn_pc = "in"
    /\ th = NoThreads /\ serial = TRUE /\ stamp_of = NoStamps /\ race = NoRace
    /\ db = EmptyTable /\ rp_pc = "idle" /\ active_positions = <<>> /\ rp_idx = 1
    /\ initial_data_cache = EmptyTable /\ token_prices = NoPrices /\ perc = Unbound
    /\ total_portfolio_value = 0 /\ all_positions_data = <<>> /\ result = NoResult
    /\ rp_log = <<>> /\ captures = NoCaptures

InitBreakeven ==
    /\ ca_in = CalcIdle /\ ca_out = NoAmounts /\ ca_pc = "in"
    /\ pv_in = VenueIdle /\ pv_out = NoPrice /\ pv_pc = "in"
    /\ sc_in = <<>> /\ sc_out = NoScan /\ sc_pc = "in"
    /\ now = 0 /\ price_cache = EmptyCache /\ price_cache_timestamp = DatetimeMin
    /\ oc = NoCall
    /\ fn_in \in BreakevenInputs /\ fn_out = FnIdle /\ fn_pc = "in"
    /\ th = NoThreads /\ serial = TRUE /\ stamp_of = NoStamps /\ race = NoRace
    /\ db = EmptyTable /\ rp_pc = "idle" /\ active_positions = <<>> /\ rp_idx = 1
    /\ initial_data_cache = EmptyTable /\ token_prices = NoPrices /\ perc = Unbound
    /\ total_portfolio_value = 0 /\ all_positions_data = <<>> /\ result = NoResult
    /\ rp_log = <<>> /\ captures = NoCaptures

InitRace ==
    /\ ca_in = CalcIdle /\ ca_out = NoAmounts /\ ca_pc = "in"
    /\ pv_in = VenueIdle /\ pv_out = NoPrice /\ pv_pc = "in"
    /\ sc_in = <<>> /\ sc_out = NoScan /\ sc_pc = "in"
    /\ now = 0 /\ price_cache = EmptyCache /\ price_cache_timestamp = DatetimeMin
    /\ oc = NoCall
    /\ fn_in = FnIdle /\ fn_out = FnIdle /\ fn_pc = "in"
    /\ th = NoThreads /\ serial \in BOOLEAN /\ stamp_of = NoStamps /\ race = NoRace
    /\ db = EmptyTable /\ rp_pc = "idle" /\ active_positions = <<>> /\ rp_idx = 1
    /\ initial_data_cache = EmptyTable /\ token_prices = NoPrices /\ perc = Unbound
    /\ total_portfolio_value = 0 /\ all_positions_data = <<>> /\ result = NoResult
    /\ rp_log = <<>> /\ captures = NoCaptures

InitTick ==
    /\ ca_in = CalcIdle /\ ca_out = NoAmounts /\ ca_pc = "in"
    /\ pv_in = VenueIdle /\ pv_out = NoPrice /\ pv_pc = "in"
    /\ sc_in = <<>> /\ sc_out = NoScan /\ sc_pc = "in"
    /\ now = 0 /\ price_cache = EmptyCache /\ price_cache_timestamp = DatetimeMin
    /\ oc = NoCall
    /\ fn_in \in TickInputs /\ fn_out = FnIdle /\ fn_pc = "in"
    /\ th = NoThreads /\ serial = TRUE /\ stamp_of = NoStamps /\ race = NoRace
    /\ db = EmptyTable /\ rp_pc = "idle" /\ active_positions = <<>> /\ rp_idx = 1
    /\ initial_data_cache = EmptyTable /\ token_prices = NoPrices /\ perc = Unbound
    /\ total_portfolio_value = 0 /\ all_positions_data = <<>> /\ result = NoResult
    /\ rp_log = <<>> /\ captures = NoCaptures

InitStatus ==
    /\ ca_in = CalcIdle /\ ca_out = NoAmounts /\ ca_pc = "in"
    /\ pv_in = VenueIdle /\ pv_out = NoPrice /\ pv_pc = "in"
    /\ sc_in = <<>> /\ sc_out = NoScan /\ sc_pc = "in"
    /\ now = 0 /\ price_cache = EmptyCache /\ price_cache_timestamp = DatetimeMin
    /\ oc = NoCall
    /\ fn_in \in StatusInputs /\ fn_out = FnIdle /\ fn_pc = "in"
    /\ th = NoThreads /\ serial = TRUE /\ stamp_of = NoStamps /\ race = NoRace
    /\ db = EmptyTable /\ rp_pc = "idle" /\ active_positions = <<>> /\ rp_idx = 1
    /\ initial_data_cache = EmptyTable /\ token_prices = NoPrices /\ perc = Unbound
    /\ total_portfolio_value = 0 /\ all_positions_data = <<>> /\ result = NoResult
    /\ rp_log = <<>> /\ captures = NoCaptures

SpecTick == InitTick /\ [][NextTick]_vars
SpecStatus == InitStatus /\ [][ReportStatus]_vars
SpecRace == InitRace /\ [][NextRace]_vars
SpecBreakeven == InitBreakeven /\ [][CalcBreakeven]_vars
SpecFormat == InitFormat /\ [][CalcFormat]_vars
SpecRewards == InitRewards /\ [][CalcRewards]_vars
SpecApr == InitApr /\ [][CalcApr]_vars
SpecIl == InitIl /\ [][CalcIl]_vars
SpecReport == InitReport /\ [][NextReport]_vars
SpecBaseline == InitReport /\ [][NextBaseline]_vars
SpecScan == InitScan /\ [][Scan]_vars
SpecAmounts == InitAmounts /\ [][CalcAmounts]_vars
SpecVenue == InitVenue /\ [][VenuePrice]_vars
SpecOracle == InitOracle /\ [][NextOracle]_vars

(***************************************************************************)
(* C10.  calculate_token_amounts with tickLower < tickUpper and            *)
(* liquidity >= 0: at or below the lower sqrt price amount1 is 0, at or    *)
(* above the upper sqrt price amount0 is 0, zero liquidity gives two zero  *)
(* amounts, and both amounts are always non-negative integers.             *)
(***************************************************************************)
C10_AmountsBySide ==
    (ca_pc = "out" /\ ca_in.lower_tick < ca_in.upper_tick /\ ca_in.liquidity >= 0) =>
        /\ ca_in.sqrt_price <= SqrtPriceAtTick(ca_in.lower_tick) => ca_out.amount1 = 0
        /\ ca_in.sqrt_price >= SqrtPriceAtTick(ca_in.upper_tick) => ca_out.amount0 = 0
        /\ ca_in.liquidity = 0 => (ca_out.amount0 = 0 /\ ca_out.amount1 = 0)
        /\ ca_out.amount0 \in Nat /\ ca_out.amount1 \in Nat

\* A call below the range that leaves a positive amount0 and no amount1.
C10_Witness ==
    /\ ca_pc = "out" /\ ca_in.lower_tick < ca_in.upper_tick
    /\ ca_in.sqrt_price <= SqrtPriceAtTick(ca_in.lower_tick)
    /\ ca_in.sqrt_price > 0
    /\ ca_out.amount0 > 0 /\ ca_out.amount1 = 0
(***************************************************************************)
(* Claims about the price oracle.  A step that leaves the clock alone and  *)
(* changes the oracle's state is one get_pool_price call; oc' holds its    *)
(* argument and result.                                                    *)
(***************************************************************************)
IsOracleCall == now' = now /\ oracleVars' # oracleVars

(***************************************************************************)
(* C6.  A get_pool_price call made when now - timestamp >= 60 s empties    *)
(* the whole price cache (every pool's entry) before any lookup; a call    *)
(* made when now - timestamp < 60 s removes no entry; under the initial    *)
(* timestamp a call always clears.                                         *)
(***************************************************************************)
C6_ExpiryClearsWholeCache ==
    [][ IsOracleCall =>
          /\ (now - price_cache_timestamp >= PRICE_CACHE_DURATION) =>
                /\ oc'.cleared
                /\ \A p \in Pools :
                      price_cache'[p] = IF p = oc'.pool THEN oc'.ret ELSE NoPrice
          /\ (now - price_cache_timestamp < PRICE_CACHE_DURATION) =>
                /\ ~oc'.cleared
                /\ \A p \in Pools :
                      price_cache[p] # NoPrice => price_cache'[p] = price_cache[p]
          /\ price_cache_timestamp = DatetimeMin => oc'.cleared
      ]_vars

\* A call on an expired cache fetched a price and dropped another pool's entry.
C6_Witness ==
    /\ oc.cleared
    /\ now - price_cache_timestamp = 0
    /\ \E p \in Pools : p # oc.pool /\ p \in oc.dropped

(***************************************************************************)
(* C7.  A call that misses the cache and obtains a price stores it under   *)
(* the requested pool and sets the shared timestamp to the call's start    *)
(* time; a call that hits the cache, or whose V3 and V2 lookups both give  *)
(* no price, leaves the timestamp unchanged and adds no cache entry.       *)
(***************************************************************************)
C7_StoreAndStampOnlyOnFetch ==
    [][ IsOracleCall =>
          LET hit == /\ now - price_cache_timestamp < PRICE_CACHE_DURATION
                     /\ price_cache[oc'.pool] # NoPrice
          IN  IF ~hit /\ oc'.ret # NoPrice
              THEN /\ price_cache'[oc'.pool] = oc'.ret
                   /\ price_cache_timestamp' = now
              ELSE /\ price_cache_timestamp' = price_cache_timestamp
                   /\ \A p \in Pools :
                         price_cache[p] = NoPrice => price_cache'[p] = NoPrice
      ]_vars

\* A call whose two lookups failed on an expired cache: nothing cached, the old stamp kept.
C7_Witness ==
    /\ oc.lookups = <<"v3", "v2">> /\ oc.ret = NoPrice
    /\ oc.dropped # {}
    /\ price_cache_timestamp # DatetimeMin
    /\ now - price_cache_timestamp >= PRICE_CACHE_DURATION

(***************************************************************************)
(* C8.  On a miss V3 pricing is attempted first and V2 pricing only if V3  *)
(* gave no price: the call returns the V3 price whenever V3 gave one       *)
(* (V2 is not consulted), otherwise the V2 price if V2 gave one,           *)
(* otherwise no price.                                                     *)
(***************************************************************************)
C8_V3BeforeV2 ==
    oc.lookups # <<>> =>
        /\ oc.lookups[1] = "v3"
        /\ oc.v3 # NoPrice => (oc.ret = oc.v3 /\ oc.lookups = <<"v3">>)
        /\ oc.v3 = NoPrice => (oc.ret = oc.v2 /\ oc.lookups = <<"v3", "v2">>)

\* V3 gave a price while V2 would have given another one.
C8_Witness ==
    /\ oc.lookups = <<"v3">>
    /\ oc.v2 # NoPrice /\ oc.v2 # oc.v3 /\ oc.ret = oc.v3

(***************************************************************************)
(* C9.  For both venues, p being the raw price (token1 per token0): if     *)
(* token1 is USDC or USDC.e the lookup gives p; otherwise if token0 is,    *)
(* it gives 1/p; otherwise no price.  A V2 pool with reserve0 = 0, or a    *)
(* pool whose inversion would divide by zero, gives no price, not an       *)
(* error.                                                                  *)
(***************************************************************************)
\* r is 1/p at scale Q, truncated
IsReciprocal(r, p) == r >= 0 /\ r * p <= Q * Q /\ Q * Q < (r + 1) * p

C9_StablecoinLeg ==
    (pv_pc = "out" /\ pv_in.rd.ok) =>
        LET rd == pv_in.rd
            p == IF pv_in.venue = "v3" THEN V3RawPrice(rd) ELSE V2RawPrice(rd)
        IN  /\ pv_out # Raised
            /\ IF pv_in.venue = "v2" /\ rd.reserve0 = 0 THEN pv_out = NoPrice
               ELSE IF rd.sym1 \in {"USDC", "USDC.e"} THEN pv_out = p
               ELSE IF rd.sym0 \in {"USDC", "USDC.e"}
                    THEN IF p = 0 THEN pv_out = NoPrice ELSE IsReciprocal(pv_out, p)
                    ELSE pv_out = NoPrice

\* A lookup that returned the inverse of a raw price other than 1.
C9_Witness ==
    /\ pv_pc = "out" /\ pv_in.rd.ok
    /\ pv_in.rd.sym0 = "USDC" /\ pv_in.rd.sym1 = "SHADOW"
    /\ pv_out # NoPrice /\ pv_out # Q
(***************************************************************************)
(* C3.  Every position of the wallet with liquidity > 0 whose read         *)
(* succeeds is in the active-position list the report is built from,       *)
(* whatever the number and placement of the closed positions.              *)
(***************************************************************************)
ActiveTokens(scan) == { scan.active[k].token_id : k \in 1 .. Len(scan.active) }

C3_AllActiveListed ==
    sc_pc = "out" =>
        \A i \in 0 .. Len(sc_in) - 1 :
            sc_in[i + 1] > 0 => TokenAt(i) \in ActiveTokens(sc_out)
(***************************************************************************)
(* Claims about the report.  rp_log holds, for each position the loop of   *)
(* the current request has come to, what happened to it.                   *)
(***************************************************************************)
Reported(token_id) ==
    \E j \in DOMAIN all_positions_data : all_positions_data[j].token_id = token_id
ReportFor(token_id) ==
    all_positions_data[CHOOSE j \in DOMAIN all_positions_data :
                          all_positions_data[j].token_id = token_id]
Raises(e) == e.outcome \in {"KeyError", "NameError"}

(***************************************************************************)
(* C1.  A failure of one position's external read (current pool state,     *)
(* mint-log scan, pool state at the mint block, rewards) never makes       *)
(* find_and_display_positions raise or end early: the position is skipped  *)
(* or reported with defaults, and the call returns a report in which every *)
(* position whose reads succeeded appears.                                 *)
(***************************************************************************)
C1_ReadFailureNeverAborts ==
    /\ \A k \in DOMAIN rp_log : rp_log[k].failed # {} => ~Raises(rp_log[k])
    /\ (rp_pc = "done" /\ \E k \in DOMAIN rp_log : rp_log[k].failed # {}) =>
          /\ result.kind = "report"
          /\ \A k \in DOMAIN rp_log : rp_log[k].failed = {} => Reported(rp_log[k].token_id)

(***************************************************************************)
(* C2.  Once a report has captured a baseline for a token (from the mint   *)
(* block, or as the "(Current)" fallback), the store holds it, it is       *)
(* never captured again, and every later report uses the same date,        *)
(* amount0, amount1 and entry price for the token.                         *)
(***************************************************************************)
SameBaseline(a, b) ==
    /\ a.date = b.date /\ a.current = b.current
    /\ a.amount0 = b.amount0 /\ a.amount1 = b.amount1 /\ a.price = b.price

C2_BaselineCapturedOnce ==
    \A t \in TokenIds :
        captures[t].n >= 1 =>
            /\ captures[t].n = 1
            /\ db[t].present /\ SameBaseline(db[t], captures[t].first)
            /\ \A k \in DOMAIN rp_log :
                  (rp_log[k].token_id = t /\ rp_log[k].baseline.present) =>
                      SameBaseline(rp_log[k].baseline, captures[t].first)

(***************************************************************************)
(* C4.  A position whose pool state is readable and whose IL               *)
(* prerequisites are unmet (line 772 decides against the IL block) still   *)
(* gets a PositionReport, with impermanent_loss_data empty, also when it   *)
(* is the first position of the request.                                   *)
(***************************************************************************)
C4_UnmetIlStillReported ==
    \A k \in DOMAIN rp_log :
        rp_log[k].gate = "unmet" =>
            /\ rp_log[k].outcome = "reported"
            /\ Reported(rp_log[k].token_id)
            /\ ~ReportFor(rp_log[k].token_id).impermanent_loss_data.present

(***************************************************************************)
(* C5.  A baseline is fresh when this request captured it with entry price *)
(* = current price and no time elapsed.  As claimed: the report of a       *)
(* position with a fresh baseline shows IL at the current price 0 and net  *)
(* gain/loss equal to the total rewards USD.  As the code has it: the      *)
(* report of such a position has impermanent_loss_data empty; and whenever *)
(* impermanent_loss_data is there and the entry price is the current       *)
(* price, IL at the current price is 0 and net gain/loss is the total      *)
(* rewards USD.                                                            *)
(***************************************************************************)
Fresh(e) ==
    /\ e.captured
    /\ e.baseline.price = e.current_price
    /\ (e.baseline.current \/ e.baseline.date = now)

C11_IlDegenerateOrRelative ==
    fn_pc = "out" =>
        /\ fn_out.il >= 0
        /\ fn_in.target_price = fn_in.entry_price => fn_out.il = 0
        /\ fn_in.lower_price >= fn_in.upper_price => fn_out.il = 0
        /\ HodlValue(fn_in.entry_price, fn_in.target_price,
                     fn_in.lower_price, fn_in.upper_price) = 0 => fn_out.il = 0
        /\ (/\ fn_in.target_price # fn_in.entry_price
            /\ fn_in.lower_price < fn_in.upper_price
            /\ HodlValue(fn_in.entry_price, fn_in.target_price,
                         fn_in.lower_price, fn_in.upper_price) # 0) =>
              \/ fn_out.il = DDiv(LpValue(fn_in.target_price, fn_in.lower_price,
                                          fn_in.upper_price),
                                  HodlValue(fn_in.entry_price, fn_in.target_price,
                                            fn_in.lower_price, fn_in.upper_price)) - Q
              \/ fn_out.il = Q - DDiv(LpValue(fn_in.target_price, fn_in.lower_price,
                                              fn_in.upper_price),
                                      HodlValue(fn_in.entry_price, fn_in.target_price,
                                                fn_in.lower_price, fn_in.upper_price))

\* Entry 1, target 4 in the range 0.25 .. 9: the LP is worth 2.1667, the held assets
\* 3.1667, less than 1, so the loss is the 31.58% that the sign is taken off.
C11_Witness ==
    /\ fn_pc = "out"
    /\ fn_in = [fn |-> "il", entry_price |-> Q, target_price |-> 4 * Q,
                lower_price |-> Q \div 4, upper_price |-> 9 * Q]
    /\ fn_out.il \in 3155 .. 3160

(***************************************************************************)
(* C12.  The USD value of a position is the sum over its two legs of       *)
(* (raw amount / 10^decimals) x price for each leg whose price is          *)
(* resolved, USDC being priced at exactly 1.0; a leg without a resolved    *)
(* price adds zero and raises nothing: the position is still reported and  *)
(* its value is added to the portfolio total.                              *)
(***************************************************************************)
Resolved(symbol) == token_prices[symbol] # NoPrice /\ token_prices[symbol] # 0
LegUsd(amount, symbol) ==
    IF Resolved(symbol)
    THEN DMul(TruncDiv(amount * Q, Pow10(KNOWN_TOKENS[symbol].decimals)),
              token_prices[symbol])
    ELSE 0
Valued(e) == e.outcome \in {"reported", "NameError"}

C12_ValueSumsResolvedLegs ==
    /\ rp_pc # "idle" /\ result.kind \notin {"connect_error"} => token_prices["USDC"] = Q
    /\ \A k \in DOMAIN rp_log :
          LET e == rp_log[k]
              pos == PositionData(e.token_id)
          IN  /\ Valued(e) =>
                    e.value = LegUsd(e.amounts.amount0, pos.token0)
                              + LegUsd(e.amounts.amount1, pos.token1)
              /\ (/\ e.outcome # "skipped" /\ e.baseline.present
                  /\ (~Resolved(pos.token0) \/ ~Resolved(pos.token1))) =>
                    /\ e.outcome = "reported"
                    /\ Reported(e.token_id)
    /\ total_portfolio_value = SumSeq([k \in DOMAIN rp_log |-> rp_log[k].value])

(***************************************************************************)
(* C13.  total_rewards_usd is the sum of the USD values listed in the      *)
(* rewards list (before they are rounded), an xSHADOW reward being valued  *)
(* at half of (raw amount / 10^decimals) x price in both places, every     *)
(* other priced token at the full value, and a token without a price       *)
(* being listed with 0 and adding 0.                                       *)
(***************************************************************************)
FullUsd(e, prices) ==
    DMul(TruncDiv(e.amount * Q, Pow10(KNOWN_TOKENS[e.symbol].decimals)), prices[e.symbol])

C13_RewardTotalIsSumOfListed ==
    (fn_pc = "out" /\ fn_out.fn = "rewards") =>
        /\ DOMAIN fn_out.rewards_data = DOMAIN fn_in.emissions
        /\ fn_out.total_rewards_usd
              = SumSeq([k \in DOMAIN fn_out.rewards_data |->
                           fn_out.rewards_data[k].usd_value])
        /\ \A k \in DOMAIN fn_in.emissions :
              LET e == fn_in.emissions[k]
                  shown == fn_out.rewards_data[k]
              IN  /\ shown.symbol = e.symbol
                  /\ shown.usd_value =
                        IF fn_in.prices[e.symbol] = NoPrice THEN 0
                        ELSE IF e.symbol = "xSHADOW"
                        THEN TruncDiv(FullUsd(e, fn_in.prices), 2)
                        ELSE FullUsd(e, fn_in.prices)

\* A priced xSHADOW reward and a priced WBTC reward: the first is listed at half its
\* value, the second in full, and the total is their sum.
C13_Witness ==
    /\ fn_pc = "out" /\ fn_out.fn = "rewards"
    /\ Len(fn_in.emissions) = 2
    /\ fn_in.emissions[1].symbol = "xSHADOW" /\ fn_in.emissions[2].symbol = "WBTC"
    /\ fn_out.rewards_data[1].usd_value > 0
    /\ fn_out.rewards_data[1].usd_value * 2 = FullUsd(fn_in.emissions[1], fn_in.prices)
    /\ fn_out.rewards_data[2].usd_value = FullUsd(fn_in.emissions[2], fn_in.prices)
    /\ fn_out.total_rewards_usd
          = fn_out.rewards_data[1].usd_value + fn_out.rewards_data[2].usd_value

(***************************************************************************)
(* C14.  With a baseline that is not a "(Current)" one, a USD value > 0    *)
(* and days active > 0: APR(%) = (rewards / value) / (days / 365) x 100,   *)
(* annual earnings = value x APR / 100, daily = annual / 365.  With a      *)
(* "(Current)" baseline or a USD value <= 0 the three are exactly 0.  The  *)
(* equations are stated without division: value, rewards and days are      *)
(* whole numbers of USD and of days here.                                  *)
(***************************************************************************)
C14_AprAndProjections ==
    (fn_pc = "out" /\ fn_out.fn = "apr") =>
        /\ (~fn_in.current /\ fn_in.position_usd_value > 0 /\ fn_in.elapsed > 0) =>
              /\ fn_out.annualized_apr % 100 = 0
              /\ (fn_out.annualized_apr \div 100) * (fn_in.position_usd_value \div Q)
                    * (fn_in.elapsed \div Q)
                  = (fn_in.total_rewards_usd \div Q) * 365 * Q
              /\ fn_out.annual_projected_usd_earnings * 100
                  = (fn_in.position_usd_value \div Q) * fn_out.annualized_apr
              /\ fn_out.daily_projected_usd_earnings * 365
                  = fn_out.annual_projected_usd_earnings
        /\ (fn_in.current \/ fn_in.position_usd_value <= 0) =>
              /\ fn_out.annualized_apr = 0
              /\ fn_out.annual_projected_usd_earnings = 0
              /\ fn_out.daily_projected_usd_earnings = 0

\* Value 1000, rewards 10, 10 days: 36.5%, 365 a year, 1 a day.
C14_Witness ==
    /\ fn_pc = "out" /\ fn_out.fn = "apr"
    /\ ~fn_in.current /\ fn_in.position_usd_value = 1000 * Q
    /\ fn_in.total_rewards_usd = 10 * Q /\ fn_in.elapsed = 10 * Q
    /\ fn_out.annualized_apr = (365 * Q) \div 10
    /\ Fmt2(fn_out.annualized_apr) = 3650
    /\ fn_out.annual_projected_usd_earnings = 365 * Q
    /\ fn_out.daily_projected_usd_earnings = Q

(***************************************************************************)
(* C17.  format_timedelta decides in this order: an absent or non-finite   *)
(* argument gives "N/A"; a negative one gives "Met", also when it is less  *)
(* than a minute below zero; one that truncates to 0 whole minutes gives   *)
(* "<1m".  So 0 gives "<1m", -1 gives "Met", None gives "N/A".             *)
(***************************************************************************)
UnderAMinute(days) == days < Q /\ days * MINUTES_PER_DAY < Q

C17_FormatOrder ==
    (fn_pc = "out" /\ fn_out.fn = "format") =>
        /\ fn_in.days.kind \in {"None", "NaN"} => fn_out.str = Text("N/A")
        /\ (fn_in.days.kind = "Decimal" /\ fn_in.days.days < 0) => fn_out.str = Text("Met")
        /\ (/\ fn_in.days.kind = "Decimal" /\ fn_in.days.days >= 0
            /\ UnderAMinute(fn_in.days.days)) => fn_out.str = Text("<1m")
        /\ (/\ fn_in.days.kind = "Decimal" /\ fn_in.days.days >= 0
            /\ ~UnderAMinute(fn_in.days.days)) => fn_out.str.text = "parts"
        /\ fn_in.days = DecimalDays(0) => fn_out.str = Text("<1m")
        /\ fn_in.days = DecimalDays(-Q) => fn_out.str = Text("Met")
        /\ fn_in.days = NoDays => fn_out.str = Text("N/A")

\* Less than a minute below zero: "Met", not "<1m".
C17_Witness ==
    /\ fn_pc = "out" /\ fn_out.fn = "format"
    /\ fn_in.days = DecimalDays(-1)
    /\ fn_out.str = Text("Met")

(***************************************************************************)
(* C18.  For an argument of at least one whole minute, format_timedelta    *)
(* gives the first (most significant) up to three non-zero components of   *)
(* the greedy decomposition of the truncated minutes into 365-day years,   *)
(* 30-day months, 7-day weeks, days, hours and minutes, in that order,     *)
(* with the suffixes y, mo, w, d, h, m: never more than three, never a     *)
(* zero one, never none and never "N/A".  400 days gives "1y 1mo 5d".      *)
(***************************************************************************)
Units == <<"y", "mo", "w", "d", "h", "m">>
Rank(unit) == CHOOSE k \in DOMAIN Units : Units[k] = unit
\* What the greedy decomposition of n minutes has of a unit: a year is 525600
\* minutes, a month 43200, a week 10080, a day 1440, an hour 60.
Greedy(unit, n) ==
    CASE unit = "y" -> n \div 525600
      [] unit = "mo" -> (n % 525600) \div 43200
      [] unit = "w" -> ((n % 525600) % 43200) \div 10080
      [] unit = "d" -> (((n % 525600) % 43200) % 10080) \div 1440
      [] unit = "h" -> (n % 1440) \div 60
      [] unit = "m" -> n % 60

C18_ThreeMostSignificant ==
    (/\ fn_pc = "out" /\ fn_out.fn = "format"
     /\ fn_in.days.kind = "Decimal" /\ fn_in.days.days >= 0
     /\ ~UnderAMinute(fn_in.days.days)) =>
        LET n == TotalMinutes(fn_in.days.days)
            parts == fn_out.str.parts
        IN  /\ fn_out.str.text = "parts"
            /\ Len(parts) \in 1 .. 3
            /\ \A i \in DOMAIN parts :
                  /\ parts[i].unit \in {Units[k] : k \in DOMAIN Units}
                  /\ parts[i].value > 0
                  /\ parts[i].value = Greedy(parts[i].unit, n)
            /\ \A i, j \in DOMAIN parts :
                  i < j => Rank(parts[i].unit) < Rank(parts[j].unit)
            /\ \A k \in DOMAIN Units :
                  (/\ Greedy(Units[k], n) > 0
                   /\ \A i \in DOMAIN parts : parts[i].unit # Units[k]) =>
                      /\ Len(parts) = 3
                      /\ k > Rank(parts[3].unit)

\* 400 days: "1y 1mo 5d".
C18_Witness ==
    /\ fn_pc = "out" /\ fn_out.fn = "format"
    /\ fn_in.days = DecimalDays(400 * Q)
    /\ fn_out.str = Parts(<<[value |-> 1, unit |-> "y"], [value |-> 1, unit |-> "mo"],
                            [value |-> 5, unit |-> "d"]>>)

(***************************************************************************)
(* C15.  For each bound of the range, the days to breakeven are the IL in  *)
(* USD at the bound divided by the daily rewards in USD when both are      *)
(* > 0, and 0 otherwise; daily rewards of 0 give 0 days and the breakeven  *)
(* string "N/A" at both bounds.  The daily rewards are whole numbers of    *)
(* USD here, which lets the quotient be stated as a product.               *)
(***************************************************************************)
BreakevenIs(b, il_usd, daily_rewards_usd) ==
    IF daily_rewards_usd > 0 /\ il_usd > 0
    THEN b.days_to_breakeven * (daily_rewards_usd \div Q) = il_usd
    ELSE b.days_to_breakeven = 0

C15_DaysToBreakeven ==
    (fn_pc = "out" /\ fn_out.fn = "breakeven") =>
        /\ fn_out.daily_rewards_usd % Q = 0
        /\ BreakevenIs(fn_out.lower, fn_in.il_usd_lower, fn_out.daily_rewards_usd)
        /\ BreakevenIs(fn_out.upper, fn_in.il_usd_upper, fn_out.daily_rewards_usd)
        /\ fn_out.daily_rewards_usd = 0 =>
              /\ fn_out.lower.days_to_breakeven = 0
              /\ fn_out.upper.days_to_breakeven = 0
              /\ fn_out.lower.breakeven_str.kind = "N/A"
              /\ fn_out.upper.breakeven_str.kind = "N/A"

\* Daily rewards of 2 USD: an IL of 5 USD at the lower bound breaks even in 2.5 days,
\* one of 20 USD at the upper bound in 10.
C15_Witness ==
    /\ fn_pc = "out" /\ fn_out.fn = "breakeven"
    /\ fn_out.daily_rewards_usd = 2 * Q
    /\ fn_in.il_usd_lower = 5 * Q /\ fn_out.lower.days_to_breakeven = 25000
    /\ fn_in.il_usd_upper = 20 * Q /\ fn_out.upper.days_to_breakeven = 10 * Q

(***************************************************************************)
(* C16.  The breakeven string of a bound is "N/A" whenever the days to     *)
(* breakeven are <= 0; when they are > 0 it is the total time followed by  *)
(* "(Met)" if the time remaining (days to breakeven - days active) is      *)
(* <= 0, exactly 0 included, and by the remaining time and "left" only if  *)
(* the time remaining is > 0.                                              *)
(***************************************************************************)
BreakevenStrIs(b) ==
    /\ b.days_to_breakeven <= 0 => b.breakeven_str.kind = "N/A"
    /\ b.days_to_breakeven > 0 =>
          /\ b.breakeven_str.total = format_timedelta(DecimalDays(b.days_to_breakeven))
          /\ b.time_remaining <= 0 => b.breakeven_str.kind = "Met"
          /\ b.breakeven_str.kind = "left" =>
                /\ b.time_remaining > 0
                /\ b.breakeven_str.remaining
                     = format_timedelta(DecimalDays(b.time_remaining))

C16_BreakevenString ==
    (fn_pc = "out" /\ fn_out.fn = "breakeven") =>
        BreakevenStrIs(fn_out.lower) /\ BreakevenStrIs(fn_out.upper)

(***************************************************************************)
(* C19.  When the chain cannot be reached or the balance of the wallet     *)
(* cannot be read, find_and_display_positions returns a single top-level   *)
(* error, without positions or totals; no position is processed and no     *)
(* baseline is written in that request.                                    *)
(***************************************************************************)
IsTopLevelError(r) == r.kind \in {"connect_error", "balance_error"}

C19_TopLevelError ==
    /\ [](IsTopLevelError(result) =>
             /\ rp_pc = "done"
             /\ result = ResultOf(result.kind, 0, 0, 0, 0, 0)
             /\ all_positions_data = <<>> /\ total_portfolio_value = 0
             /\ active_positions = <<>> /\ rp_log = <<>>)
    /\ [][IsTopLevelError(result') => db' = db]_vars

\* The balance could not be read, in a request that follows one that wrote a baseline
\* and after the prices were fetched.
C19_Witness ==
    /\ result.kind = "balance_error" /\ rp_pc = "done"
    /\ price_cache # EmptyCache
    /\ \E t \in TokenIds : db[t].present

(***************************************************************************)
(* C20.  The shared price cache needs mutual exclusion from outside.  When *)
(* two get_pool_price calls are interleaved without a lock, an entry that  *)
(* one call stored can be removed by the expiry-clear of the other less    *)
(* than PRICE_CACHE_DURATION after it was stored, and the shared timestamp *)
(* can be overwritten with an earlier time (the witness); when the calls   *)
(* run one after the other, neither happens.                               *)
(***************************************************************************)
C20_SerialCallsDoNotRace ==
    serial => ~race.early_clear /\ ~race.stamp_back

\* Without a lock, both have happened.
C20_Witness ==
    ~serial /\ race.early_clear /\ race.stamp_back

(***************************************************************************)
(* C21.  tick_to_price(tick, 8, 8) equals 1.0001^tick to within the        *)
(* precision of 50 significant digits for tick in {-887272, 0, 887272}:    *)
(* the base and every intermediate value are exact decimals, no binary     *)
(* floating-point value enters.  Two numbers are taken to agree when each  *)
(* is at most the other times 1 + 10^-48, which leaves room for the last   *)
(* two digits; for reciprocals that is the same relation.                  *)
(***************************************************************************)
LimbAt(m, k) == IF k <= Len(m) THEN m[k] ELSE 0

\* The limbs of x written with the limb exponent e0 <= x.e.
Aligned(x, e0) ==
    SubSeq([k \in 1 .. Len(x.m) + x.e - e0 |-> IF k <= x.e - e0 THEN 0 ELSE x.m[k - (x.e - e0)]],
           1, Len(x.m) + x.e - e0)

LimbsLess(a, b) ==
    \E k \in 1 .. Len(a) + Len(b) :
       /\ LimbAt(a, k) < LimbAt(b, k)
       /\ \A j \in k + 1 .. Len(a) + Len(b) : LimbAt(a, j) = LimbAt(b, j)

DecLess(x, y) ==
    LimbsLess(Aligned(x, IF x.e < y.e THEN x.e ELSE y.e),
              Aligned(y, IF x.e < y.e THEN x.e ELSE y.e))

OnePlusTolerance ==
    [m |-> [k \in 1 .. (PREC - 2) \div 4 + 1 |-> IF k \in {1, (PREC - 2) \div 4 + 1} THEN 1 ELSE 0],
     e |-> -((PREC - 2) \div 4)]

WithinPrecision(p, q) ==
    /\ ~DecLess(DecMul(q, OnePlusTolerance), p)
    /\ ~DecLess(DecMul(p, OnePlusTolerance), q)

C21_TickToPriceExact ==
    (/\ fn_pc = "out" /\ fn_in.fn = "tick_to_price"
     /\ fn_in.tick \in {-MaxTick, 0, MaxTick}
     /\ fn_in.decimals0 = 8 /\ fn_in.decimals1 = 8)
    => WithinPrecision(fn_out.price, fn_out.exact)

(***************************************************************************)
(* C22.  With the get_pool_price calls made one at a time, for several     *)
(* pools, every price returned from the cache was fetched from the chain   *)
(* less than PRICE_CACHE_DURATION before the call that returns it, also    *)
(* when other pools were looked up in between.                             *)
(***************************************************************************)
ReturnsCached(i) ==
    th[i].pc = "check" /\ th'[i].pc = "idle" /\ th'[i].price # NoPrice

C22_CachedPriceYoungerThanTtl ==
    [][serial => \A i \in Threads :
                    ReturnsCached(i)
                    => th[i].current_time - stamp_of[th[i].pool] < PRICE_CACHE_DURATION]_vars

(***************************************************************************)
(* C23.  In every PositionReport perc_to_lower and perc_to_upper are the   *)
(* signed percentage distances computed from that position's current price *)
(* and range bounds in the same request, never values carried over from a  *)
(* position processed before.                                              *)
(***************************************************************************)
IsReported(e) == e.outcome = "reported"

\* Lines 833-843 on the position of the log entry e.
OwnPercs(e) ==
    PercsOf(e.current_price,
            tick_to_price(PositionData(e.token_id).tickLower,
                          KNOWN_TOKENS[PositionData(e.token_id).token0].decimals,
                          KNOWN_TOKENS[PositionData(e.token_id).token1].decimals),
            tick_to_price(PositionData(e.token_id).tickUpper,
                          KNOWN_TOKENS[PositionData(e.token_id).token0].decimals,
                          KNOWN_TOKENS[PositionData(e.token_id).token1].decimals))

C23_PercsAreThePositionsOwn ==
    \A j \in 1 .. Len(all_positions_data) :
       /\ j <= Len(SelectSeq(rp_log, IsReported))
       /\ all_positions_data[j].token_id = SelectSeq(rp_log, IsReported)[j].token_id
       /\ all_positions_data[j].perc_to_lower
             = Fmt2(OwnPercs(SelectSeq(rp_log, IsReported)[j]).lower)
       /\ all_positions_data[j].perc_to_upper
             = Fmt2(OwnPercs(SelectSeq(rp_log, IsReported)[j]).upper)

(***************************************************************************)
(* C24.  In every successful PortfolioReport num_active_positions is the   *)
(* number of PositionReport entries in positions, and                      *)
(* total_portfolio_value is the sum of the USD values of exactly those     *)
(* entries, also when an active position is skipped because its pool state *)
(* cannot be read.  The values summed are the ones line 697 adds, before   *)
(* they are rounded for display.                                           *)
(***************************************************************************)
ReportedValues ==
    [k \in 1 .. Len(SelectSeq(rp_log, IsReported)) |-> SelectSeq(rp_log, IsReported)[k].value]

C24_TotalsMatchPositions ==
    result.kind = "report"
    => /\ result.num_active_positions = Len(all_positions_data)
       /\ result.total_portfolio_value = Fmt2(SumSeq(ReportedValues))

(***************************************************************************)
(* C25.  For a pool state whose current tick is the floor tick of its      *)
(* sqrt price (ticks are two apart here), a position reported "IN RANGE"   *)
(* has its amounts from the in-range branch of calculate_token_amounts and *)
(* one reported "OUT OF RANGE" from a single-sided branch; the two agree   *)
(* at currentTick = tickLower and at currentTick = tickUpper too.          *)
(***************************************************************************)
IsFloorTick(sqrt_price, current_tick) ==
    /\ SqrtPriceAtTick(current_tick) <= sqrt_price
    /\ sqrt_price < SqrtPriceAtTick(current_tick + 2)

C25_StatusMatchesAmountCase ==
    (/\ fn_pc = "out" /\ fn_in.fn = "position_status"
     /\ fn_in.tickLower < fn_in.tickUpper
     /\ IsFloorTick(fn_in.sqrt_price, fn_in.current_tick)) =>
        (fn_out.position_status = "IN RANGE" <=> fn_out.amount_case = "in range")

(***************************************************************************)
(* C26.  The scan reads the wallet's indices from balance - 1 downwards    *)
(* and ends after at most balance reads.  It stops before index 0 exactly  *)
(* when 5 successfully read positions in a row had zero liquidity: a       *)
(* position with liquidity starts the count again, a read that raises      *)
(* leaves the count as it is and does not stop the scan.  The active list  *)
(* holds the positions with liquidity that were read, in ascending index   *)
(* order.                                                                  *)
(***************************************************************************)
\* The zero-liquidity reads from index i upwards with no position with liquidity
\* between them and i.
ClosedInARow(wallet, i) ==
    Cardinality({ k \in i .. Len(wallet) - 1 :
                    /\ wallet[k + 1] = 0
                    /\ \A l \in i .. k : wallet[l + 1] <= 0 })
\* Index i is a zero-liquidity read that completes a run of 5.
CompletesRun(wallet, i) == wallet[i + 1] = 0 /\ ClosedInARow(wallet, i) >= 5
IsRead(scan, i) == \E k \in 1 .. Len(scan.reads) : scan.reads[k] = i

C26_ScanOrderAndStop ==
    sc_pc = "out" =>
        /\ Len(sc_out.reads) <= Len(sc_in)
        /\ \A k \in 1 .. Len(sc_out.reads) : sc_out.reads[k] = Len(sc_in) - k
        /\ \A i \in 0 .. Len(sc_in) - 1 :
              IsRead(sc_out, i) <=>
                  ~ \E j \in i + 1 .. Len(sc_in) - 1 : CompletesRun(sc_in, j)
        /\ \A i \in 0 .. Len(sc_in) - 1 :
              (IsRead(sc_out, i) /\ sc_in[i + 1] > 0) <=>
                  \E k \in 1 .. Len(sc_out.active) :
                      sc_out.active[k] = [token_id |-> TokenAt(i), liquidity |-> sc_in[i + 1]]
        /\ \A k \in 1 .. Len(sc_out.active) : \A l \in k + 1 .. Len(sc_out.active) :
              sc_out.active[k].token_id < sc_out.active[l].token_id

\* A scan that found two positions with liquidity, then met a read that raised
\* among five closed positions, and stopped with an index left unread.
C26_Witness ==
    /\ sc_pc = "out"
    /\ Len(sc_out.reads) < Len(sc_in)
    /\ Len(sc_out.active) = 2
    /\ \E i \in 0 .. Len(sc_in) - 1 :
          /\ sc_in[i + 1] = ReadError /\ IsRead(sc_out, i)
          /\ ClosedInARow(sc_in, i) > 0
          /\ \E j \in 0 .. i - 1 : IsRead(sc_out, j) /\ sc_in[j + 1] = 0

=============================================================================
